---- MODULE Spec2Model ----
(***************************************************************************)
(* A model of the filter argument (FilterExec) and of the equality-to-zero *)
(* gadget (EqualsExpr) of proof-of-sql: the three passes of a proof plan   *)
(* (first round, final round, verifier) over a small prime field.          *)
(*                                                                         *)
(* The plan that is run is                                                 *)
(*     SELECT b, a FROM t WHERE a = 1                                      *)
(* over a table t with the two scalar columns a (index 1) and b (index 2). *)
(***************************************************************************)
EXTENDS Integers, Sequences, FiniteSets, TLC

(***************************************************************************)
(* Bounds of the model.                                                    *)
(***************************************************************************)
MaxRows == 2
MaxVal == 1

(***************************************************************************)
(* The scalar field: the integers modulo the prime P (the group order of   *)
(* the real scalar type, reduced to a small prime).  Row counts stay below *)
(* P, as usize row counts stay below the real group order.                 *)
(***************************************************************************)
P == 5
F == 0 .. (P - 1)
Vals == 0 .. MaxVal

FAdd(x, y) == (x + y) % P
FSub(x, y) == (x + P - y) % P
FMul(x, y) == (x * y) % P
FNeg(x) == (P - x) % P

RECURSIVE FPow(_, _)
FPow(x, k) == IF k = 0 THEN 1 ELSE FMul(x, FPow(x, k - 1))

RECURSIVE FSum(_)
FSum(col) == IF col = <<>> THEN 0 ELSE FAdd(Head(col), FSum(Tail(col)))

BoolToScalar(v) == IF v THEN 1 ELSE 0
AsScalars(col) == [i \in DOMAIN col |-> BoolToScalar(col[i])]
Fill(n, x) == [i \in 1 .. n |-> x]
\* a column read as a multilinear extension is zero beyond its length
ColAt(col, i) == IF i \in DOMAIN col THEN col[i] ELSE 0

(***************************************************************************)
(* slice_ops: inversion with zero mapped to zero, and adding a constant.   *)
(***************************************************************************)
PseudoInv(x) == IF x = 0 THEN 0 ELSE CHOOSE y \in F : FMul(x, y) = 1
batch_inversion(col) == [i \in DOMAIN col |-> PseudoInv(col[i])]
add_const(col, x) == [i \in DOMAIN col |-> FAdd(col[i], x)]

(***************************************************************************)
(* fold = alpha * SUM_k beta^k * column_k, per row (fold_columns) and on   *)
(* evaluations (fold_vals, without the factor alpha).                      *)
(***************************************************************************)
RECURSIVE fold_vals_from(_, _, _)
fold_vals_from(beta, vals, k) ==
    IF vals = <<>> THEN 0
    ELSE FAdd(FMul(FPow(beta, k), Head(vals)), fold_vals_from(beta, Tail(vals), k + 1))

fold_vals(beta, vals) == fold_vals_from(beta, vals, 0)

fold_columns(n, al, be, columns) ==
    [i \in 1 .. n |-> FMul(al, fold_vals(be, [k \in DOMAIN columns |-> columns[k][i]]))]

(***************************************************************************)
(* filter_columns: the rows of each column at which the selection is true, *)
(* in increasing row order, and their number.                              *)
(***************************************************************************)
RECURSIVE filter_column(_, _)
filter_column(col, sel) ==
    IF col = <<>> THEN <<>>
    ELSE (IF Head(sel) THEN <<Head(col)>> ELSE <<>>) \o filter_column(Tail(col), Tail(sel))

filter_columns(columns, sel) ==
    [cols |-> [k \in DOMAIN columns |-> filter_column(columns[k], sel)],
     len |-> Len(filter_column(sel, sel))]

(***************************************************************************)
(* The plan: SELECT b, a FROM t WHERE a = 1.  An aliased result is an      *)
(* alias with a column reference (the index of the column in the table);   *)
(* the where clause is an EqualsExpr of a column reference and a literal.  *)
(***************************************************************************)
aliased_results == << [alias |-> "b", expr |-> 2], [alias |-> "a", expr |-> 1] >>
where_clause == [lhs |-> 1, rhs |-> 1]
TableColumns == << "a", "b" >>

VARIABLES
    pc,          \* the phase of the proof session
    table,       \* the input table: a sequence of columns of equal length
    first,       \* FirstRoundBuilder: requested challenges and chi lengths
    firstResult, \* the table returned by first_round_evaluate
    challenges,  \* the post-result challenges drawn after the first round
    final,       \* FinalRoundBuilder: MLEs, subpolynomials, arena, challenges read
    finalResult, \* the table returned by final_round_evaluate
    vin,         \* the verifier's inputs: accessor and chi evaluations, opened row
    vb,          \* VerificationBuilder: the proof's lists and what was consumed
    vresult,     \* what verifier_evaluate returned
    eq,          \* a session of the equality-to-zero gadget run on its own
    ex,          \* a session of an expression tree of EqualsExpr nodes
    cm,          \* a session of HyperKZG commitments: compute, combine, serialize
    snd,         \* a session of the filter identities against a claimed output
    cc,          \* a session of operations on ColumnCommitments instances
    run          \* a session of one of the remaining checks: calls that may fail, repeated runs

fvars == << pc, table, first, firstResult, challenges, final, finalResult,
           vin, vb, vresult >>
vars == << fvars, eq, ex, cm, snd, cc, run >>

NoTable == [names |-> <<>>, cols |-> <<>>, num_rows |-> 0]
NumRows(t) == IF t = <<>> THEN 0 ELSE Len(t[1])

(***************************************************************************)
(* Expressions of the plan, prover side: a column reference returns the    *)
(* table's column, a literal a constant column; neither emits anything.    *)
(***************************************************************************)
ColumnRefEvaluate(t, k) == t[k]
LiteralEvaluate(t, x) == Fill(NumRows(t), x)
add_subtract_columns(lhs, rhs) == [i \in DOMAIN lhs |-> FSub(lhs[i], rhs[i])]

(***************************************************************************)
(* The equality-to-zero gadget, prover side.                               *)
(***************************************************************************)
first_round_evaluate_equals_zero(table_length, lhs) ==
    [i \in 1 .. table_length |-> lhs[i] = 0]

(***************************************************************************)
(* FirstRoundBuilder and FinalRoundBuilder.  A column handed to the final  *)
(* round builder is kept with the name of the variable that held it.       *)
(***************************************************************************)
NewFirstRoundBuilder == [num_post_result_challenges |-> 0, chi_evaluation_lengths |-> <<>>]

request_post_result_challenges(b, cnt) ==
    [b EXCEPT !.num_post_result_challenges = @ + cnt]

produce_chi_evaluation_length(b, len) ==
    [b EXCEPT !.chi_evaluation_lengths = Append(@, len)]

NewFinalRoundBuilder ==
    [mles |-> <<>>, subpolys |-> <<>>, challenges_consumed |-> 0, challenge_roles |-> <<>>]

Col(name, col) == [name |-> name, col |-> col]

produce_intermediate_mle(b, name, col) ==
    [b EXCEPT !.mles = Append(@, Col(name, col))]

produce_sumcheck_subpolynomial(b, type, terms) ==
    [b EXCEPT !.subpolys = Append(@, [type |-> type, terms |-> terms])]

\* the challenge a consume_post_result_challenge call on builder b returns
post_result_challenge(b, chs) == chs[b.challenges_consumed + 1]

consume_post_result_challenge(b, role) ==
    [b EXCEPT !.challenges_consumed = @ + 1, !.challenge_roles = Append(@, role)]

(***************************************************************************)
(* The equality-to-zero gadget, final round: the selection it returns and  *)
(* the builder after its two MLEs and two Identity subpolynomials.         *)
(***************************************************************************)
\* variant: returns selection_not, the negation of the selection
final_round_evaluate_equals_zero_Negated(table_length, builder, lhs) ==
    LET lhs_pseudo_inv == batch_inversion(lhs)
        b1 == produce_intermediate_mle(builder, "lhs_pseudo_inv", lhs_pseudo_inv)
        selection_not == [i \in 1 .. table_length |-> lhs[i] # 0]
        selection == [i \in 1 .. table_length |-> ~selection_not[i]]
        b2 == produce_intermediate_mle(b1, "selection", AsScalars(selection))
        b3 == produce_sumcheck_subpolynomial(b2, "Identity",
                  << [coef |-> 1,
                      factors |-> << Col("lhs", lhs),
                                     Col("selection", AsScalars(selection)) >>] >>)
        b4 == produce_sumcheck_subpolynomial(b3, "Identity",
                  << [coef |-> 1,
                      factors |-> << Col("selection_not", AsScalars(selection_not)) >>],
                     [coef |-> FNeg(1),
                      factors |-> << Col("lhs", lhs),
                                     Col("lhs_pseudo_inv", lhs_pseudo_inv) >>] >>)
    IN  [selection |-> selection_not, builder |-> b4]

\* variant: the pseudo-inverse column is a copy of lhs, not inverted
final_round_evaluate_equals_zero_NoInversion(table_length, builder, lhs) ==
    LET lhs_pseudo_inv == lhs
        b1 == produce_intermediate_mle(builder, "lhs_pseudo_inv", lhs_pseudo_inv)
        selection_not == [i \in 1 .. table_length |-> lhs[i] # 0]
        selection == [i \in 1 .. table_length |-> ~selection_not[i]]
        b2 == produce_intermediate_mle(b1, "selection", AsScalars(selection))
        b3 == produce_sumcheck_subpolynomial(b2, "Identity",
                  << [coef |-> 1,
                      factors |-> << Col("lhs", lhs),
                                     Col("selection", AsScalars(selection)) >>] >>)
        b4 == produce_sumcheck_subpolynomial(b3, "Identity",
                  << [coef |-> 1,
                      factors |-> << Col("selection_not", AsScalars(selection_not)) >>],
                     [coef |-> FNeg(1),
                      factors |-> << Col("lhs", lhs),
                                     Col("lhs_pseudo_inv", lhs_pseudo_inv) >>] >>)
    IN  [selection |-> selection, builder |-> b4]

final_round_evaluate_equals_zero(table_length, builder, lhs) ==
    LET lhs_pseudo_inv == batch_inversion(lhs)
        b1 == produce_intermediate_mle(builder, "lhs_pseudo_inv", lhs_pseudo_inv)
        selection_not == [i \in 1 .. table_length |-> lhs[i] # 0]
        selection == [i \in 1 .. table_length |-> ~selection_not[i]]
        b2 == produce_intermediate_mle(b1, "selection", AsScalars(selection))
        b3 == produce_sumcheck_subpolynomial(b2, "Identity",
                  << [coef |-> 1,
                      factors |-> << Col("lhs", lhs),
                                     Col("selection", AsScalars(selection)) >>] >>)
        b4 == produce_sumcheck_subpolynomial(b3, "Identity",
                  << [coef |-> 1,
                      factors |-> << Col("selection_not", AsScalars(selection_not)) >>],
                     [coef |-> FNeg(1),
                      factors |-> << Col("lhs", lhs),
                                     Col("lhs_pseudo_inv", lhs_pseudo_inv) >>] >>)
    IN  [selection |-> selection, builder |-> b4]

(***************************************************************************)
(* EqualsExpr (lhs = column where_lhs, rhs = the literal), prover side.    *)
(***************************************************************************)
EqualsFirstRoundEvaluate(e, t) ==
    LET lhs_column == ColumnRefEvaluate(t, e.lhs)
        rhs_column == LiteralEvaluate(t, e.rhs)
        res == add_subtract_columns(lhs_column, rhs_column)
    IN  first_round_evaluate_equals_zero(NumRows(t), res)

EqualsFinalRoundEvaluate(e, builder, t) ==
    LET lhs_column == ColumnRefEvaluate(t, e.lhs)
        rhs_column == LiteralEvaluate(t, e.rhs)
        scale_and_subtract_res == add_subtract_columns(lhs_column, rhs_column)
    IN  final_round_evaluate_equals_zero(NumRows(t), builder, scale_and_subtract_res)

(***************************************************************************)
(* prove_filter: the builder after the witnesses c_star, d_star and the    *)
(* four subpolynomials of the filter argument.                             *)
(***************************************************************************)
\* mutant: c_star inverts c_fold instead of 1 + c_fold
prove_filter_NoAddConst(builder, al, be, c, s, d, n, m) ==
    LET chi_n == Fill(n, 1)
        chi_m == Fill(m, 1)
        c_fold == fold_columns(n, al, be, c)
        d_fold == fold_columns(m, al, be, d)
        c_star == batch_inversion(c_fold)
        d_star == batch_inversion(add_const(d_fold, 1))
        b1 == produce_intermediate_mle(builder, "c_star", c_star)
        b2 == produce_intermediate_mle(b1, "d_star", d_star)
        b3 == produce_sumcheck_subpolynomial(b2, "ZeroSum",
                  << [coef |-> 1,
                      factors |-> << Col("c_star", c_star), Col("s", AsScalars(s)) >>],
                     [coef |-> FNeg(1), factors |-> << Col("d_star", d_star) >>] >>)
        b4 == produce_sumcheck_subpolynomial(b3, "Identity",
                  << [coef |-> 1, factors |-> << Col("c_star", c_star) >>],
                     [coef |-> 1,
                      factors |-> << Col("c_star", c_star), Col("c_fold", c_fold) >>],
                     [coef |-> FNeg(1), factors |-> << Col("chi_n", chi_n) >>] >>)
        b5 == produce_sumcheck_subpolynomial(b4, "Identity",
                  << [coef |-> 1, factors |-> << Col("d_star", d_star) >>],
                     [coef |-> 1,
                      factors |-> << Col("d_star", d_star), Col("d_fold", d_fold) >>],
                     [coef |-> FNeg(1), factors |-> << Col("chi_m", chi_m) >>] >>)
        b6 == produce_sumcheck_subpolynomial(b5, "Identity",
                  << [coef |-> 1,
                      factors |-> << Col("d_fold", d_fold), Col("chi_m", chi_m) >>],
                     [coef |-> FNeg(1), factors |-> << Col("d_fold", d_fold) >>] >>)
    IN  b6

\* mutant: chi_m is given the input length
prove_filter_ChiLength(builder, al, be, c, s, d, n, m) ==
    LET chi_n == Fill(n, 1)
        chi_m == Fill(n, 1)
        c_fold == fold_columns(n, al, be, c)
        d_fold == fold_columns(m, al, be, d)
        c_star == batch_inversion(add_const(c_fold, 1))
        d_star == batch_inversion(add_const(d_fold, 1))
        b1 == produce_intermediate_mle(builder, "c_star", c_star)
        b2 == produce_intermediate_mle(b1, "d_star", d_star)
        b3 == produce_sumcheck_subpolynomial(b2, "ZeroSum",
                  << [coef |-> 1,
                      factors |-> << Col("c_star", c_star), Col("s", AsScalars(s)) >>],
                     [coef |-> FNeg(1), factors |-> << Col("d_star", d_star) >>] >>)
        b4 == produce_sumcheck_subpolynomial(b3, "Identity",
                  << [coef |-> 1, factors |-> << Col("c_star", c_star) >>],
                     [coef |-> 1,
                      factors |-> << Col("c_star", c_star), Col("c_fold", c_fold) >>],
                     [coef |-> FNeg(1), factors |-> << Col("chi_n", chi_n) >>] >>)
        b5 == produce_sumcheck_subpolynomial(b4, "Identity",
                  << [coef |-> 1, factors |-> << Col("d_star", d_star) >>],
                     [coef |-> 1,
                      factors |-> << Col("d_star", d_star), Col("d_fold", d_fold) >>],
                     [coef |-> FNeg(1), factors |-> << Col("chi_m", chi_m) >>] >>)
        b6 == produce_sumcheck_subpolynomial(b5, "Identity",
                  << [coef |-> 1,
                      factors |-> << Col("d_fold", d_fold), Col("chi_m", chi_m) >>],
                     [coef |-> FNeg(1), factors |-> << Col("d_fold", d_fold) >>] >>)
    IN  b6

prove_filter(builder, al, be, c, s, d, n, m) ==
    LET chi_n == Fill(n, 1)
        chi_m == Fill(m, 1)
        c_fold == fold_columns(n, al, be, c)
        d_fold == fold_columns(m, al, be, d)
        c_star == batch_inversion(add_const(c_fold, 1))
        d_star == batch_inversion(add_const(d_fold, 1))
        b1 == produce_intermediate_mle(builder, "c_star", c_star)
        b2 == produce_intermediate_mle(b1, "d_star", d_star)
        b3 == produce_sumcheck_subpolynomial(b2, "ZeroSum",
                  << [coef |-> 1,
                      factors |-> << Col("c_star", c_star), Col("s", AsScalars(s)) >>],
                     [coef |-> FNeg(1), factors |-> << Col("d_star", d_star) >>] >>)
        b4 == produce_sumcheck_subpolynomial(b3, "Identity",
                  << [coef |-> 1, factors |-> << Col("c_star", c_star) >>],
                     [coef |-> 1,
                      factors |-> << Col("c_star", c_star), Col("c_fold", c_fold) >>],
                     [coef |-> FNeg(1), factors |-> << Col("chi_n", chi_n) >>] >>)
        b5 == produce_sumcheck_subpolynomial(b4, "Identity",
                  << [coef |-> 1, factors |-> << Col("d_star", d_star) >>],
                     [coef |-> 1,
                      factors |-> << Col("d_star", d_star), Col("d_fold", d_fold) >>],
                     [coef |-> FNeg(1), factors |-> << Col("chi_m", chi_m) >>] >>)
        b6 == produce_sumcheck_subpolynomial(b5, "Identity",
                  << [coef |-> 1,
                      factors |-> << Col("d_fold", d_fold), Col("chi_m", chi_m) >>],
                     [coef |-> FNeg(1), factors |-> << Col("d_fold", d_fold) >>] >>)
    IN  b6

(***************************************************************************)
(* FilterExec, prover side.                                                *)
(***************************************************************************)
Aliases == [k \in DOMAIN aliased_results |-> aliased_results[k].alias]

MakeTable(names, cols, num_rows) == [names |-> names, cols |-> cols, num_rows |-> num_rows]

CountTrue(sel) == Len(filter_column(sel, sel))

\* mutant: the result columns are taken in the table's order, not the plan's
FilterFirstRoundEvaluate_TableOrder(builder, t) ==
    LET selection == EqualsFirstRoundEvaluate(where_clause, t)
        output_length == CountTrue(selection)
        columns == [k \in DOMAIN aliased_results |-> ColumnRefEvaluate(t, k)]
        filtered == filter_columns(columns, selection)
        res == MakeTable(Aliases, filtered.cols, output_length)
        b1 == request_post_result_challenges(builder, 2)
        b2 == produce_chi_evaluation_length(b1, output_length)
    IN  [res |-> res, builder |-> b2]

\* variant: the chi length declared is the number of rows of the input table
FilterFirstRoundEvaluate_InputLength(builder, t) ==
    LET selection == EqualsFirstRoundEvaluate(where_clause, t)
        output_length == CountTrue(selection)
        columns == [k \in DOMAIN aliased_results |->
                        ColumnRefEvaluate(t, aliased_results[k].expr)]
        filtered == filter_columns(columns, selection)
        res == MakeTable(Aliases, filtered.cols, output_length)
        b1 == request_post_result_challenges(builder, 2)
        b2 == produce_chi_evaluation_length(b1, NumRows(t))
    IN  [res |-> res, builder |-> b2]

FilterFirstRoundEvaluate(builder, t) ==
    LET selection == EqualsFirstRoundEvaluate(where_clause, t)
        output_length == CountTrue(selection)
        columns == [k \in DOMAIN aliased_results |->
                        ColumnRefEvaluate(t, aliased_results[k].expr)]
        filtered == filter_columns(columns, selection)
        res == MakeTable(Aliases, filtered.cols, output_length)
        b1 == request_post_result_challenges(builder, 2)
        b2 == produce_chi_evaluation_length(b1, output_length)
    IN  [res |-> res, builder |-> b2]

FilterFinalRoundEvaluate(builder, t, chs) ==
    LET sel == EqualsFinalRoundEvaluate(where_clause, builder, t)
        selection == sel.selection
        output_length == CountTrue(selection)
        columns == [k \in DOMAIN aliased_results |->
                        ColumnRefEvaluate(t, aliased_results[k].expr)]
        filtered == filter_columns(columns, selection)
        RECURSIVE ProduceAll(_, _)
        ProduceAll(b, k) ==
            IF k > Len(filtered.cols) THEN b
            ELSE ProduceAll(produce_intermediate_mle(b, aliased_results[k].alias,
                                                     filtered.cols[k]), k + 1)
        b1 == ProduceAll(sel.builder, 1)
        al == post_result_challenge(b1, chs)
        b2 == consume_post_result_challenge(b1, "alpha")
        be == post_result_challenge(b2, chs)
        b3 == consume_post_result_challenge(b2, "beta")
        b4 == prove_filter(b3, al, be, columns, selection, filtered.cols,
                           NumRows(t), filtered.len)
        res == MakeTable(Aliases, filtered.cols, output_length)
    IN  [res |-> res, builder |-> b4]

(***************************************************************************)
(* VerificationBuilder: the lists a proof supplies, how far each has been  *)
(* consumed, the subpolynomial evaluations produced, and the variable each *)
(* consumed MLE evaluation was bound to.                                   *)
(***************************************************************************)
NewVerificationBuilder(mle_evaluations, post_result_challenges, chi_evaluations) ==
    [mle_evaluations |-> mle_evaluations,
     post_result_challenges |-> post_result_challenges,
     chi_evaluations |-> chi_evaluations,
     consumed_mle |-> 0,
     consumed_challenges |-> 0,
     consumed_chi |-> 0,
     produced |-> <<>>,
     bound |-> <<>>,
     bound_challenges |-> <<>>]

Ok(val, b) == [ok |-> TRUE, val |-> val, b |-> b]
Err(b) == [ok |-> FALSE, val |-> 0, b |-> b]

try_consume_final_round_mle_evaluation(b, role) ==
    IF b.consumed_mle < Len(b.mle_evaluations)
    THEN Ok(b.mle_evaluations[b.consumed_mle + 1].val,
            [b EXCEPT !.consumed_mle = @ + 1, !.bound = Append(@, role)])
    ELSE Err(b)

RECURSIVE try_consume_final_round_mle_evaluations(_, _, _)
try_consume_final_round_mle_evaluations(b, roles, acc) ==
    IF roles = <<>> THEN Ok(acc, b)
    ELSE LET r == try_consume_final_round_mle_evaluation(b, Head(roles))
         IN  IF r.ok
             THEN try_consume_final_round_mle_evaluations(r.b, Tail(roles), Append(acc, r.val))
             ELSE Err(r.b)

try_consume_post_result_challenge(b, role) ==
    IF b.consumed_challenges < Len(b.post_result_challenges)
    THEN Ok(b.post_result_challenges[b.consumed_challenges + 1],
            [b EXCEPT !.consumed_challenges = @ + 1, !.bound_challenges = Append(@, role)])
    ELSE Err(b)

try_consume_chi_evaluation(b) ==
    IF b.consumed_chi < Len(b.chi_evaluations)
    THEN Ok(b.chi_evaluations[b.consumed_chi + 1], [b EXCEPT !.consumed_chi = @ + 1])
    ELSE Err(b)

try_produce_sumcheck_subpolynomial_evaluation(b, type, eval, degree) ==
    [b EXCEPT !.produced = Append(@, [type |-> type, eval |-> eval, degree |-> degree])]

(***************************************************************************)
(* The equality-to-zero gadget and EqualsExpr, verifier side.              *)
(***************************************************************************)
\* variant: the second evaluation uses selection where the code uses selection_not
verifier_evaluate_equals_zero_NoComplement(builder, lhs_eval, chi_eval) ==
    LET r1 == try_consume_final_round_mle_evaluation(builder, "lhs_pseudo_inv")
    IN  IF ~r1.ok THEN Err(r1.b) ELSE
    LET r2 == try_consume_final_round_mle_evaluation(r1.b, "selection")
    IN  IF ~r2.ok THEN Err(r2.b) ELSE
    LET lhs_pseudo_inv_eval == r1.val
        selection_eval == r2.val
        selection_not_eval == FSub(chi_eval, selection_eval)
        b3 == try_produce_sumcheck_subpolynomial_evaluation(r2.b, "Identity",
                  FMul(selection_eval, lhs_eval), 2)
        b4 == try_produce_sumcheck_subpolynomial_evaluation(b3, "Identity",
                  FSub(selection_eval, FMul(lhs_eval, lhs_pseudo_inv_eval)), 2)
    IN  Ok(selection_eval, b4)

verifier_evaluate_equals_zero(builder, lhs_eval, chi_eval) ==
    LET r1 == try_consume_final_round_mle_evaluation(builder, "lhs_pseudo_inv")
    IN  IF ~r1.ok THEN Err(r1.b) ELSE
    LET r2 == try_consume_final_round_mle_evaluation(r1.b, "selection")
    IN  IF ~r2.ok THEN Err(r2.b) ELSE
    LET lhs_pseudo_inv_eval == r1.val
        selection_eval == r2.val
        selection_not_eval == FSub(chi_eval, selection_eval)
        b3 == try_produce_sumcheck_subpolynomial_evaluation(r2.b, "Identity",
                  FMul(selection_eval, lhs_eval), 2)
        b4 == try_produce_sumcheck_subpolynomial_evaluation(b3, "Identity",
                  FSub(selection_not_eval, FMul(lhs_eval, lhs_pseudo_inv_eval)), 2)
    IN  Ok(selection_eval, b4)

ColumnRefVerifierEvaluate(accessor, k) == accessor[k]
LiteralVerifierEvaluate(chi_eval, x) == FMul(chi_eval, x)

EqualsVerifierEvaluate(e, builder, accessor, chi_eval) ==
    LET lhs_eval == ColumnRefVerifierEvaluate(accessor, e.lhs)
        rhs_eval == LiteralVerifierEvaluate(chi_eval, e.rhs)
    IN  verifier_evaluate_equals_zero(builder, FSub(lhs_eval, rhs_eval), chi_eval)

(***************************************************************************)
(* verify_filter and FilterExec's verifier_evaluate.                       *)
(***************************************************************************)
\* the four evaluations verify_filter hands to the builder, in order:
\*   sum c_star * s - d_star
\* variant: the sum is not checked
ZeroSumEval_Dropped(c_star_eval, s_eval, d_star_eval) == 0

ZeroSumEval(c_star_eval, s_eval, d_star_eval) ==
    FSub(FMul(c_star_eval, s_eval), d_star_eval)

\*   c_star + c_fold * c_star - chi_n
\* variant: the constant one stands in for the evaluation of chi_n
CStarEval_ChiOne(c_star_eval, c_fold_eval, chi_n_eval) ==
    FSub(FAdd(c_star_eval, FMul(c_fold_eval, c_star_eval)), 1)

CStarEval(c_star_eval, c_fold_eval, chi_n_eval) ==
    FSub(FAdd(c_star_eval, FMul(c_fold_eval, c_star_eval)), chi_n_eval)

\*   d_star + d_fold * d_star - chi_m
\* variant: d_star is not tied to the fold of d
DStarEval_NoFold(d_star_eval, d_fold_eval, chi_m_eval) == FSub(d_star_eval, chi_m_eval)

DStarEval(d_star_eval, d_fold_eval, chi_m_eval) ==
    FSub(FAdd(d_star_eval, FMul(d_fold_eval, d_star_eval)), chi_m_eval)

\*   d_fold * chi_m - d_fold
DFoldEval(d_fold_eval, chi_m_eval) ==
    FMul(d_fold_eval, FSub(chi_m_eval, 1))

\* mutant: d_star is consumed before c_star
verify_filter_Swapped(builder, al, be, chi_n_eval, chi_m_eval, c_evals, s_eval, d_evals) ==
    LET r1 == try_consume_final_round_mle_evaluation(builder, "d_star")
    IN  IF ~r1.ok THEN Err(r1.b) ELSE
    LET r2 == try_consume_final_round_mle_evaluation(r1.b, "c_star")
    IN  IF ~r2.ok THEN Err(r2.b) ELSE
    LET c_star_eval == r2.val
        d_star_eval == r1.val
        c_fold_eval == FMul(al, fold_vals(be, c_evals))
        d_fold_eval == FMul(al, fold_vals(be, d_evals))
        b3 == try_produce_sumcheck_subpolynomial_evaluation(r2.b, "ZeroSum",
                  ZeroSumEval(c_star_eval, s_eval, d_star_eval), 2)
        b4 == try_produce_sumcheck_subpolynomial_evaluation(b3, "Identity",
                  CStarEval(c_star_eval, c_fold_eval, chi_n_eval), 2)
        b5 == try_produce_sumcheck_subpolynomial_evaluation(b4, "Identity",
                  DStarEval(d_star_eval, d_fold_eval, chi_m_eval), 2)
        b6 == try_produce_sumcheck_subpolynomial_evaluation(b5, "Identity",
                  DFoldEval(d_fold_eval, chi_m_eval), 2)
    IN  Ok(0, b6)

\* mutant: a missing d_star evaluation is read as zero instead of failing
verify_filter_Lenient(builder, al, be, chi_n_eval, chi_m_eval, c_evals, s_eval, d_evals) ==
    LET r1 == try_consume_final_round_mle_evaluation(builder, "c_star")
    IN  IF ~r1.ok THEN Err(r1.b) ELSE
    LET r2 == try_consume_final_round_mle_evaluation(r1.b, "d_star")
    IN
    LET c_star_eval == r1.val
        d_star_eval == r2.val
        c_fold_eval == FMul(al, fold_vals(be, c_evals))
        d_fold_eval == FMul(al, fold_vals(be, d_evals))
        b3 == try_produce_sumcheck_subpolynomial_evaluation(r2.b, "ZeroSum",
                  ZeroSumEval(c_star_eval, s_eval, d_star_eval), 2)
        b4 == try_produce_sumcheck_subpolynomial_evaluation(b3, "Identity",
                  CStarEval(c_star_eval, c_fold_eval, chi_n_eval), 2)
        b5 == try_produce_sumcheck_subpolynomial_evaluation(b4, "Identity",
                  DStarEval(d_star_eval, d_fold_eval, chi_m_eval), 2)
        b6 == try_produce_sumcheck_subpolynomial_evaluation(b5, "Identity",
                  DFoldEval(d_fold_eval, chi_m_eval), 2)
    IN  Ok(0, b6)

verify_filter(builder, al, be, chi_n_eval, chi_m_eval, c_evals, s_eval, d_evals) ==
    LET r1 == try_consume_final_round_mle_evaluation(builder, "c_star")
    IN  IF ~r1.ok THEN Err(r1.b) ELSE
    LET r2 == try_consume_final_round_mle_evaluation(r1.b, "d_star")
    IN  IF ~r2.ok THEN Err(r2.b) ELSE
    LET c_star_eval == r1.val
        d_star_eval == r2.val
        c_fold_eval == FMul(al, fold_vals(be, c_evals))
        d_fold_eval == FMul(al, fold_vals(be, d_evals))
        b3 == try_produce_sumcheck_subpolynomial_evaluation(r2.b, "ZeroSum",
                  ZeroSumEval(c_star_eval, s_eval, d_star_eval), 2)
        b4 == try_produce_sumcheck_subpolynomial_evaluation(b3, "Identity",
                  CStarEval(c_star_eval, c_fold_eval, chi_n_eval), 2)
        b5 == try_produce_sumcheck_subpolynomial_evaluation(b4, "Identity",
                  DStarEval(d_star_eval, d_fold_eval, chi_m_eval), 2)
        b6 == try_produce_sumcheck_subpolynomial_evaluation(b5, "Identity",
                  DFoldEval(d_fold_eval, chi_m_eval), 2)
    IN  Ok(0, b6)

FilterVerifierEvaluate(builder, accessor, input_chi_eval) ==
    LET sel == EqualsVerifierEvaluate(where_clause, builder, accessor, input_chi_eval)
    IN  IF ~sel.ok THEN Err(sel.b) ELSE
    LET selection_eval == sel.val
        columns_evals == [k \in DOMAIN aliased_results |->
                              ColumnRefVerifierEvaluate(accessor, aliased_results[k].expr)]
        filtered == try_consume_final_round_mle_evaluations(sel.b, Aliases, <<>>)
    IN  IF ~filtered.ok THEN Err(filtered.b) ELSE
    LET filtered_columns_evals == filtered.val
        ra == try_consume_post_result_challenge(filtered.b, "alpha")
    IN  IF ~ra.ok THEN Err(ra.b) ELSE
    LET rb == try_consume_post_result_challenge(ra.b, "beta")
    IN  IF ~rb.ok THEN Err(rb.b) ELSE
    LET rc == try_consume_chi_evaluation(rb.b)
    IN  IF ~rc.ok THEN Err(rc.b) ELSE
    LET output_chi_eval == rc.val
        vf == verify_filter(rc.b, ra.val, rb.val, input_chi_eval, output_chi_eval,
                            columns_evals, selection_eval, filtered_columns_evals)
    IN  IF ~vf.ok THEN Err(vf.b)
        ELSE Ok([column_evals |-> filtered_columns_evals, chi_eval |-> output_chi_eval],
                vf.b)

(***************************************************************************)
(* Opening the proof: the evaluations the verifier is handed are those of  *)
(* the prover's columns at one row of the hypercube (a row past the end of *)
(* a column evaluates to zero).  One item of the proof may be missing.     *)
(***************************************************************************)
MleEvalAt(col, row) == ColAt(col, row)

\* the lists of a proof, each without its last item when the proof lacks one of its kind
Removals == {"none", "mle", "challenge", "chi"}
Drop(seq, kind, rm) == IF rm = kind /\ seq # <<>> THEN SubSeq(seq, 1, Len(seq) - 1) ELSE seq

VerifierInputs(t, row, rm) ==
    [row |-> row, removed |-> rm,
     accessor |-> [k \in DOMAIN t |-> MleEvalAt(t[k], row)],
     input_chi_eval |-> MleEvalAt(Fill(NumRows(t), 1), row)]

ProofBuilder(fin, fst, chs, row, rm) ==
    NewVerificationBuilder(
        Drop([k \in DOMAIN fin.mles |->
                 [tag |-> fin.mles[k].name, val |-> MleEvalAt(fin.mles[k].col, row)]],
             "mle", rm),
        Drop(chs, "challenge", rm),
        Drop([k \in DOMAIN fst.chi_evaluation_lengths |->
                 MleEvalAt(Fill(fst.chi_evaluation_lengths[k], 1), row)],
             "chi", rm))

NoInputs == [row |-> 0, removed |-> "none",
             accessor |-> <<>>, input_chi_eval |-> 0]
NotRun == [ok |-> FALSE, val |-> "not run"]

(***************************************************************************)
(* The proof session.                                                      *)
(***************************************************************************)
\* the sessions that a filter proof session does not run
NoEq == [pc |-> "idle", lhs |-> <<>>, first_selection |-> <<>>, final_selection |-> <<>>,
         builder |-> NewFinalRoundBuilder, opened |-> NoInputs,
         vb |-> NewVerificationBuilder(<<>>, <<>>, <<>>), vresult |-> NotRun]
NoExpr == [pc |-> "idle", expr |-> <<>>, table |-> <<>>, first |-> <<>>, final |-> <<>>,
           builder |-> NewFinalRoundBuilder, visits |-> <<>>, opened |-> NoInputs,
           vb |-> NewVerificationBuilder(<<>>, <<>>, <<>>), vresult |-> NotRun,
           vvisits |-> <<>>]
NoCommit == [pc |-> "idle", setup |-> <<>>, offset |-> 0, columns |-> <<>>, scalar |-> 0,
             reference |-> <<>>, accelerated |-> <<>>, sum |-> <<>>, product |-> <<>>,
             value |-> <<>>, bytes |-> <<>>, decoded |-> <<>>]
NoSound == [pc |-> "idle", c |-> <<>>, s |-> <<>>, d |-> <<>>, how |-> "none",
            challenge |-> <<>>, satisfied |-> FALSE]
NoColumns == [pc |-> "idle"]
NoRun == [pc |-> "idle"]

Tables == UNION { [1 .. Len(TableColumns) -> [1 .. n -> Vals]] : n \in 0 .. MaxRows }

Init ==
    /\ pc = "start"
    /\ table \in Tables
    /\ first = NewFirstRoundBuilder
    /\ firstResult = NoTable
    /\ challenges = <<>>
    /\ final = NewFinalRoundBuilder
    /\ finalResult = NoTable
    /\ vin = NoInputs
    /\ vb = NewVerificationBuilder(<<>>, <<>>, <<>>)
    /\ vresult = NotRun
    /\ eq = NoEq
    /\ ex = NoExpr
    /\ cm = NoCommit
    /\ snd = NoSound
    /\ cc = NoColumns
    /\ run = NoRun

FirstRound ==
    /\ pc = "start"
    /\ LET r == FilterFirstRoundEvaluate(first, table)
       IN  /\ first' = r.builder
           /\ firstResult' = r.res
    /\ pc' = "first_done"
    /\ UNCHANGED << table, challenges, final, finalResult, vin, vb, vresult, eq, ex, cm, snd, cc, run >>

\* the challenges are drawn only after the first round's results are fixed
DrawChallenges ==
    /\ pc = "first_done"
    /\ challenges' \in [1 .. first.num_post_result_challenges -> F]
    /\ pc' = "challenged"
    /\ UNCHANGED << table, first, firstResult, final, finalResult, vin, vb, vresult, eq, ex, cm, snd, cc, run >>

FinalRound ==
    /\ pc = "challenged"
    /\ LET r == FilterFinalRoundEvaluate(final, table, challenges)
       IN  /\ final' = r.builder
           /\ finalResult' = r.res
    /\ pc' = "final_done"
    /\ UNCHANGED << table, first, firstResult, challenges, vin, vb, vresult, eq, ex, cm, snd, cc, run >>

\* the verifier runs on the proof opened at one row, possibly lacking an item
VerifierEvaluate ==
    /\ pc = "final_done"
    /\ \E row \in 1 .. (MaxRows + 1), rm \in Removals :
          LET inputs == VerifierInputs(table, row, rm)
              r == FilterVerifierEvaluate(ProofBuilder(final, first, challenges, row, rm),
                                          inputs.accessor, inputs.input_chi_eval)
          IN  /\ vin' = inputs
              /\ vb' = r.b
              /\ vresult' = [ok |-> r.ok, val |-> IF r.ok THEN r.val ELSE "ProofError"]
    /\ pc' = "verified"
    /\ UNCHANGED << table, first, firstResult, challenges, final, finalResult, eq, ex, cm, snd, cc, run >>

Next == FirstRound \/ DrawChallenges \/ FinalRound \/ VerifierEvaluate

Spec == Init /\ [][Next]_vars

(***************************************************************************)
(* What a sumcheck subpolynomial asserts: a column is zero beyond its      *)
(* length; an Identity subpolynomial is zero at every row, a ZeroSum       *)
(* subpolynomial sums to zero over the rows.                               *)
(***************************************************************************)
RECURSIVE ProductAt(_, _)
ProductAt(factors, i) ==
    IF factors = <<>> THEN 1
    ELSE FMul(ColAt(Head(factors).col, i), ProductAt(Tail(factors), i))

RECURSIVE TermsAt(_, _)
TermsAt(terms, i) ==
    IF terms = <<>> THEN 0
    ELSE FAdd(FMul(Head(terms).coef, ProductAt(Head(terms).factors, i)),
              TermsAt(Tail(terms), i))

SubpolyAt(sp, i) == TermsAt(sp.terms, i)

SubpolyLen(sp) ==
    LET lens == UNION { { Len(sp.terms[t].factors[f].col) :
                              f \in DOMAIN sp.terms[t].factors } : t \in DOMAIN sp.terms }
    IN  IF lens = {} THEN 0 ELSE CHOOSE l \in lens : \A l2 \in lens : l2 <= l

TermSum(term) ==
    FSum([i \in 1 .. SubpolyLen([terms |-> <<term>>]) |-> ProductAt(term.factors, i)])

IdentityHolds(sp) == \A i \in 1 .. SubpolyLen(sp) : SubpolyAt(sp, i) = 0
ZeroSumHolds(sp) == FSum([i \in 1 .. SubpolyLen(sp) |-> SubpolyAt(sp, i)]) = 0
SubpolyHolds(sp) == IF sp.type = "ZeroSum" THEN ZeroSumHolds(sp) ELSE IdentityHolds(sp)

\* the column that the final round builder holds under a name in subpolynomial k
FactorCol(k, name) ==
    LET sp == final.subpolys[k]
        hits == UNION { { sp.terms[t].factors[f].col :
                              f \in { g \in DOMAIN sp.terms[t].factors :
                                         sp.terms[t].factors[g].name = name } } :
                          t \in DOMAIN sp.terms }
    IN  CHOOSE c \in hits : TRUE

\* the subpolynomial types in emission order: the where clause's two, then the filter's
SubpolyTypeOrder == << "Identity", "Identity", "ZeroSum", "Identity", "Identity", "Identity" >>

\* positions of the filter's subpolynomials, after those of the where clause
ZeroSumPos == CHOOSE k \in DOMAIN SubpolyTypeOrder : SubpolyTypeOrder[k] = "ZeroSum"
CStarPos == ZeroSumPos + 1
DStarPos == ZeroSumPos + 2
DFoldPos == ZeroSumPos + 3

\* the state right after a round: what the round returned is not changed later
AfterFirst == pc = "first_done"
Proved == pc = "final_done"

\* the where clause's result, and the rows it selects
WhereResult == EqualsFirstRoundEvaluate(where_clause, table)
SelectedRows == { i \in 1 .. NumRows(table) : WhereResult[i] }
\* the j-th selected row, counting from 1 in increasing row order
NthSelected(j) ==
    CHOOSE i \in SelectedRows : Cardinality({ i2 \in SelectedRows : i2 <= i }) = j

ExpectedResult ==
    [names |-> [k \in DOMAIN aliased_results |-> aliased_results[k].alias],
     cols |-> [k \in DOMAIN aliased_results |->
                  [j \in 1 .. Cardinality(SelectedRows) |->
                      table[aliased_results[k].expr][NthSelected(j)]]],
     num_rows |-> Cardinality(SelectedRows)]

(***************************************************************************)
(* C1: first_round_evaluate and final_round_evaluate of the filter return  *)
(* the same table: the rows selected by the where clause's result, in      *)
(* increasing row order, one column per aliased result in the order of     *)
(* aliased_results, with m = number of selected rows <= n.                 *)
(***************************************************************************)
C1_FilterResult ==
    /\ AfterFirst =>
          /\ firstResult = ExpectedResult
          /\ firstResult.num_rows <= NumRows(table)
    /\ Proved =>
          /\ finalResult = ExpectedResult
          /\ finalResult = firstResult

\* a filter that drops a row and keeps another has run both rounds
C1_Witness ==
    /\ Proved
    /\ NumRows(table) = 2
    /\ SelectedRows = {2}
    /\ table[1] # table[2]
    /\ finalResult.num_rows = 1

(***************************************************************************)
(* C3 as stated: for every challenge pair the witnesses of prove_filter    *)
(* make all four subpolynomials of the filter hold.                        *)
(***************************************************************************)
C3_AllChallenges ==
    Proved => \A k \in {ZeroSumPos, CStarPos, DStarPos, DFoldPos} :
                  SubpolyHolds(final.subpolys[k])

\* no input row folds to -1 under the drawn challenges
NonDegenerate == \A i \in 1 .. NumRows(table) : FAdd(FactorCol(CStarPos, "c_fold")[i], 1) # 0

(***************************************************************************)
(* C3 amended: the ZeroSum subpolynomial and d_fold*chi_m - d_fold hold    *)
(* for every challenge pair; c_star + c_fold*c_star - chi_n and            *)
(* d_star + d_fold*d_star - chi_m are zero exactly at the rows whose fold  *)
(* is not -1, so all four hold whenever no input row folds to -1.          *)
(***************************************************************************)
C3_Completeness ==
    Proved =>
        /\ SubpolyHolds(final.subpolys[ZeroSumPos])
        /\ final.subpolys[ZeroSumPos].type = "ZeroSum"
        /\ SubpolyHolds(final.subpolys[DFoldPos])
        /\ \A i \in 1 .. NumRows(table) :
              SubpolyAt(final.subpolys[CStarPos], i) = 0
                  <=> FAdd(FactorCol(CStarPos, "c_fold")[i], 1) # 0
        /\ \A j \in 1 .. finalResult.num_rows :
              SubpolyAt(final.subpolys[DStarPos], j) = 0
                  <=> FAdd(FactorCol(DStarPos, "d_fold")[j], 1) # 0
        /\ NonDegenerate =>
              \A k \in {ZeroSumPos, CStarPos, DStarPos, DFoldPos} :
                  SubpolyHolds(final.subpolys[k])

\* a run with selected and unselected rows, nonzero folds and inverses
C3_Witness ==
    /\ Proved
    /\ NonDegenerate
    /\ NumRows(table) = 2
    /\ finalResult.num_rows = 1
    /\ \A i \in 1 .. 2 : FactorCol(CStarPos, "c_fold")[i] # 0
    /\ challenges[2] \notin {0, 1}

(***************************************************************************)
(* C5: when the where clause is false on every row, both rounds return a   *)
(* table of 0 rows with one empty column per aliased result, the declared  *)
(* chi length is 0, two challenges are requested, d_fold and d_star are    *)
(* empty, and the ZeroSum and the two d-side subpolynomials hold.          *)
(***************************************************************************)
C5_ZeroRows ==
    SelectedRows = {} =>
        /\ AfterFirst =>
              /\ firstResult.num_rows = 0
              /\ Len(firstResult.cols) = Len(aliased_results)
              /\ \A k \in DOMAIN firstResult.cols : firstResult.cols[k] = <<>>
              /\ first.chi_evaluation_lengths = <<0>>
              /\ first.num_post_result_challenges = 2
        /\ Proved =>
              /\ finalResult.num_rows = 0
              /\ Len(finalResult.cols) = Len(aliased_results)
              /\ \A k \in DOMAIN finalResult.cols : finalResult.cols[k] = <<>>
              /\ FactorCol(DFoldPos, "d_fold") = <<>>
              /\ FactorCol(DStarPos, "d_star") = <<>>
              /\ TermSum(final.subpolys[ZeroSumPos].terms[1]) = 0
              /\ TermSum(final.subpolys[ZeroSumPos].terms[2]) = 0
              /\ SubpolyHolds(final.subpolys[ZeroSumPos])
              /\ SubpolyHolds(final.subpolys[DStarPos])
              /\ SubpolyHolds(final.subpolys[DFoldPos])

\* a table with rows, none selected, has been proved
C5_Witness ==
    /\ Proved
    /\ NumRows(table) = 2
    /\ SelectedRows = {}
    /\ finalResult.num_rows = 0

Verified == pc = "verified"
Honest == vin.removed = "none"

ProverMleOrder == << "lhs_pseudo_inv", "selection" >> \o Aliases \o << "c_star", "d_star" >>

(***************************************************************************)
(* C6: the verifier consumes what the prover emitted, in the order it was  *)
(* emitted: the where clause's MLEs, one MLE per filtered column in column *)
(* order, challenges alpha then beta, MLEs c_star then d_star, then the    *)
(* subpolynomials ZeroSum, Identity, Identity, Identity; the k-th MLE      *)
(* evaluation consumed is that of the k-th MLE produced.                   *)
(***************************************************************************)
C6_TranscriptOrder ==
    /\ Proved =>
          /\ [k \in DOMAIN final.mles |-> final.mles[k].name] = ProverMleOrder
          /\ final.challenge_roles = << "alpha", "beta" >>
          /\ [k \in DOMAIN final.subpolys |-> final.subpolys[k].type] = SubpolyTypeOrder
    /\ (Verified /\ Honest) =>
          /\ vresult.ok
          /\ vb.consumed_mle = Len(final.mles)
          /\ \A k \in 1 .. vb.consumed_mle :
                /\ vb.bound[k] = vb.mle_evaluations[k].tag
                /\ vb.bound[k] = final.mles[k].name
          /\ vb.bound_challenges = final.challenge_roles
          /\ vb.consumed_chi = 1
          /\ [k \in DOMAIN vb.produced |-> vb.produced[k].type] = SubpolyTypeOrder

\* an untampered proof of a table with a selected row has been verified
C6_Witness ==
    /\ Verified
    /\ Honest
    /\ vresult.ok
    /\ finalResult.num_rows >= 1
    /\ Len(vb.produced) = 6

(***************************************************************************)
(* C7: a proof lacking one final-round MLE evaluation, one post-result     *)
(* challenge or one chi evaluation makes verifier_evaluate return a        *)
(* ProofError: it does not return a table evaluation, and no subpolynomial *)
(* evaluation is produced after the failing consume call.                  *)
(***************************************************************************)
C7_MissingItemFails ==
    (Verified /\ ~Honest) =>
        /\ ~vresult.ok
        /\ vresult.val = "ProofError"
        \* every consume call before the failing one succeeded
        /\ vb.consumed_mle = IF vin.removed = "mle" THEN Len(final.mles) - 1
                              ELSE Len(final.mles) - 2
        /\ vb.consumed_challenges = IF vin.removed = "challenge" THEN 1 ELSE 2
        /\ vb.consumed_chi = IF vin.removed = "mle" THEN 1 ELSE 0
        \* only the where clause's two evaluations were produced
        /\ Len(vb.produced) = 2

\* a proof without its last MLE evaluation has been rejected inside verify_filter
C7_Witness ==
    /\ Verified
    /\ vin.removed = "mle"
    /\ ~vresult.ok
    /\ vb.consumed_mle = 5

(***************************************************************************)
(* The equality-to-zero gadget on its own: a column lhs over the whole     *)
(* field, the two prover rounds, and the verifier run on evaluations that  *)
(* the prover is free to choose.                                           *)
(***************************************************************************)
FilterIdle ==
    /\ pc = "idle"
    /\ table = <<>>
    /\ first = NewFirstRoundBuilder
    /\ firstResult = NoTable
    /\ challenges = <<>>
    /\ final = NewFinalRoundBuilder
    /\ finalResult = NoTable
    /\ vin = NoInputs
    /\ vb = NewVerificationBuilder(<<>>, <<>>, <<>>)
    /\ vresult = NotRun

EqColumns == UNION { [1 .. n -> F] : n \in 0 .. MaxRows }

EqInit ==
    /\ FilterIdle
    /\ ex = NoExpr
    /\ snd = NoSound
    /\ cm = NoCommit
    /\ cc = NoColumns
    /\ run = NoRun
    /\ \E lhs \in EqColumns : eq = [NoEq EXCEPT !.pc = "start", !.lhs = lhs]

EqFirstRound ==
    /\ eq.pc = "start"
    /\ eq' = [eq EXCEPT !.pc = "first_done",
                        !.first_selection =
                            first_round_evaluate_equals_zero(Len(eq.lhs), eq.lhs)]
    /\ UNCHANGED << fvars, ex, cm, snd, cc, run >>

EqFinalRound ==
    /\ eq.pc = "first_done"
    /\ LET r == final_round_evaluate_equals_zero(Len(eq.lhs), eq.builder, eq.lhs)
       IN  eq' = [eq EXCEPT !.pc = "final_done",
                            !.final_selection = r.selection,
                            !.builder = r.builder]
    /\ UNCHANGED << fvars, ex, cm, snd, cc, run >>

\* the verifier's gadget on the two evaluations a prover sent for one opened row:
\* the honest prover sends the row's values of the MLEs it produced, a
\* dishonest one any pair of scalars
EqVerifierEvaluate ==
    /\ eq.pc = "final_done"
    /\ \E row \in 1 .. (Len(eq.lhs) + 1), lhs_pseudo_inv_eval \in F, selection_eval \in F :
          LET lhs_eval == MleEvalAt(eq.lhs, row)
              chi_eval == MleEvalAt(Fill(Len(eq.lhs), 1), row)
              builder == NewVerificationBuilder(
                             << [tag |-> "lhs_pseudo_inv", val |-> lhs_pseudo_inv_eval],
                                [tag |-> "selection", val |-> selection_eval] >>,
                             <<>>, <<>>)
              r == verifier_evaluate_equals_zero(builder, lhs_eval, chi_eval)
          IN  eq' = [eq EXCEPT !.pc = "verified",
                               !.opened = [row |-> row, removed |-> "none",
                                           accessor |-> << lhs_eval >>,
                                           input_chi_eval |-> chi_eval],
                               !.vb = r.b,
                               !.vresult = [ok |-> r.ok,
                                            val |-> IF r.ok THEN r.val ELSE "ProofError"]]
    /\ UNCHANGED << fvars, ex, cm, snd, cc, run >>

EqNext == EqFirstRound \/ EqFinalRound \/ EqVerifierEvaluate

SpecEq == EqInit /\ [][EqNext]_vars

\* what the gadget's verifier was given and what it handed to the builder
EqVerified == eq.pc = "verified"
EqLhsEval == eq.opened.accessor[1]
EqInvEval == eq.vb.mle_evaluations[1].val
EqSelectionEval == eq.vb.mle_evaluations[2].val
EqIdentityA == eq.vb.produced[1].eval
EqIdentityB == eq.vb.produced[2].eval
EqRowInTable == eq.opened.row \in DOMAIN eq.lhs
EqHonestOpening ==
    /\ EqInvEval = MleEvalAt(eq.builder.mles[1].col, eq.opened.row)
    /\ EqSelectionEval = MleEvalAt(eq.builder.mles[2].col, eq.opened.row)

\* C8: first_round_evaluate_equals_zero and final_round_evaluate_equals_zero
\* return the same boolean column, of the length of lhs, whose entry i is
\* true exactly when lhs[i] is zero.
C8_SelectionIsZeroTest ==
    eq.pc = "final_done" =>
        /\ eq.first_selection = eq.final_selection
        /\ Len(eq.final_selection) = Len(eq.lhs)
        /\ \A i \in DOMAIN eq.lhs :
              /\ eq.final_selection[i] \in BOOLEAN
              /\ eq.final_selection[i] <=> (eq.lhs[i] = 0)

C8_Witness ==
    /\ eq.pc = "final_done"
    /\ \E i, j \in DOMAIN eq.lhs : eq.lhs[i] = 0 /\ eq.lhs[j] # 0
    /\ eq.first_selection = eq.final_selection

\* C9: at a row of the table, whatever evaluations the prover sends for the
\* pseudo-inverse and the selection, the two evaluations the verifier hands
\* to the builder (selection * lhs and (1 - selection) - lhs * inv) are both
\* zero only if selection is 1 where lhs is zero and 0 where lhs is nonzero;
\* and selection = 1 at a row with lhs nonzero makes the first one nonzero
\* whatever the pseudo-inverse is.
C9_GadgetSound ==
    (EqVerified /\ EqRowInTable) =>
        /\ (EqIdentityA = 0 /\ EqIdentityB = 0) =>
              EqSelectionEval = (IF EqLhsEval = 0 THEN 1 ELSE 0)
        /\ (EqSelectionEval = 1 /\ EqLhsEval # 0) => EqIdentityA # 0

C9_Witness ==
    /\ EqVerified
    /\ EqRowInTable
    /\ EqLhsEval # 0
    /\ EqIdentityA = 0
    /\ EqIdentityB = 0
    /\ EqSelectionEval = 0

\* C10: the honest witnesses (pseudo-inverse by batch inversion, selection
\* from the zero test) make both emitted Identity subpolynomials zero at
\* every row, and the verifier's two evaluations zero at every opened row.
C10_HonestWitnesses ==
    /\ eq.pc = "final_done" =>
          /\ Len(eq.builder.subpolys) = 2
          /\ \A k \in DOMAIN eq.builder.subpolys :
                /\ eq.builder.subpolys[k].type = "Identity"
                /\ SubpolyLen(eq.builder.subpolys[k]) = Len(eq.lhs)
                /\ IdentityHolds(eq.builder.subpolys[k])
    /\ (EqVerified /\ EqHonestOpening) => (EqIdentityA = 0 /\ EqIdentityB = 0)

C10_Witness ==
    /\ EqVerified
    /\ EqHonestOpening
    /\ EqRowInTable
    /\ \E i, j \in DOMAIN eq.lhs : eq.lhs[i] = 0 /\ eq.lhs[j] # 0 /\ eq.lhs[j] # 1
    /\ EqIdentityA = 0
    /\ EqIdentityB = 0

(***************************************************************************)
(* The filter identities against a claimed output: input columns c of      *)
(* boolean cells, any selection s, and an output d that is the honest one  *)
(* or the honest one with a cell changed, two rows exchanged, a row        *)
(* dropped or a row repeated.  The prover is free in c_star and d_star.    *)
(***************************************************************************)
BoolCells == { BoolToScalar(v) : v \in BOOLEAN }
NumCols == Len(aliased_results)
SoundInputs ==
    UNION { { [c |-> c, s |-> s] : c \in [1 .. NumCols -> [1 .. n -> BoolCells]],
                                   s \in [1 .. n -> BOOLEAN] } : n \in 0 .. MaxRows }

ColumnsLen(columns) == IF columns = <<>> THEN 0 ELSE Len(columns[1])
HonestOutput(c, s) == filter_columns(c, s).cols

WithCell(d, k, j, v) == [d EXCEPT ![k][j] = v]
WithRowsExchanged(d, j) ==
    [k \in DOMAIN d |->
        [i \in DOMAIN d[k] |-> IF i = j THEN d[k][j + 1]
                               ELSE IF i = j + 1 THEN d[k][j] ELSE d[k][i]]]
WithoutRow(d, j) ==
    [k \in DOMAIN d |->
        [i \in 1 .. (Len(d[k]) - 1) |-> IF i < j THEN d[k][i] ELSE d[k][i + 1]]]
WithRowRepeated(d, j) == [k \in DOMAIN d |-> Append(d[k], d[k][j])]

ClaimedOutputs(c, s) ==
    LET h == HonestOutput(c, s)
        m == ColumnsLen(h)
    IN  { [how |-> "honest", d |-> h] }
        \cup { [how |-> "cell", d |-> WithCell(h, w[1], w[2], w[3])] :
                  w \in { x \in (DOMAIN h) \X (1 .. m) \X BoolCells :
                             h[x[1]][x[2]] # x[3] } }
        \cup { [how |-> "exchanged", d |-> WithRowsExchanged(h, j)] : j \in 1 .. (m - 1) }
        \cup { [how |-> "dropped", d |-> WithoutRow(h, j)] : j \in 1 .. m }
        \cup { [how |-> "repeated", d |-> WithRowRepeated(h, j)] : j \in 1 .. m }

\* the evaluations verify_filter works with at row r of the hypercube, where
\* every MLE evaluates to its column's entry (zero past the column's end)
RowEvals(chs, c, s, d, r) ==
    [chi_n_eval |-> MleEvalAt(Fill(Len(s), 1), r),
     chi_m_eval |-> MleEvalAt(Fill(ColumnsLen(d), 1), r),
     c_fold_eval |-> FMul(chs[1], fold_vals(chs[2], [k \in DOMAIN c |-> MleEvalAt(c[k], r)])),
     s_eval |-> MleEvalAt(AsScalars(s), r),
     d_fold_eval |-> FMul(chs[1], fold_vals(chs[2], [k \in DOMAIN d |-> MleEvalAt(d[k], r)]))]

\* the values of the ZeroSum summand at row r over all (c_star, d_star)
\* entries that make the three Identity evaluations zero at that row
RowSummands(chs, c, s, d, r) ==
    LET e == RowEvals(chs, c, s, d, r)
        c_stars == { x \in F : CStarEval(x, e.c_fold_eval, e.chi_n_eval) = 0 }
        d_stars == IF DFoldEval(e.d_fold_eval, e.chi_m_eval) # 0 THEN {}
                   ELSE { y \in F : DStarEval(y, e.d_fold_eval, e.chi_m_eval) = 0 }
    IN  { ZeroSumEval(w[1], e.s_eval, w[2]) : w \in c_stars \X d_stars }

RECURSIVE ReachableSums(_, _, _, _, _)
ReachableSums(chs, c, s, d, r) ==
    IF r > Len(s) /\ r > ColumnsLen(d) THEN {0}
    ELSE { FAdd(x, y) : x \in RowSummands(chs, c, s, d, r),
                        y \in ReachableSums(chs, c, s, d, r + 1) }

\* there are columns c_star, d_star with all four identities satisfied
Satisfiable(chs, c, s, d) == 0 \in ReachableSums(chs, c, s, d, 1)

ChallengePairs == [1 .. 2 -> F]

SoundInit ==
    /\ FilterIdle
    /\ eq = NoEq
    /\ ex = NoExpr
    /\ cm = NoCommit
    /\ cc = NoColumns
    /\ run = NoRun
    /\ \E i \in SoundInputs : snd = [NoSound EXCEPT !.pc = "start", !.c = i.c, !.s = i.s]

\* the prover names its output
ClaimOutput ==
    /\ snd.pc = "start"
    /\ \E o \in ClaimedOutputs(snd.c, snd.s) :
          snd' = [snd EXCEPT !.pc = "claimed", !.d = o.d, !.how = o.how]
    /\ UNCHANGED << fvars, eq, ex, cm, cc, run >>

\* the challenges are drawn, and the prover looks for c_star and d_star
TryChallenge ==
    /\ snd.pc = "claimed"
    /\ \E chs \in ChallengePairs :
          snd' = [snd EXCEPT !.pc = "tried", !.challenge = chs,
                             !.satisfied = Satisfiable(chs, snd.c, snd.s, snd.d)]
    /\ UNCHANGED << fvars, eq, ex, cm, cc, run >>

SoundNext == ClaimOutput \/ TryChallenge

SpecSound == SoundInit /\ [][SoundNext]_vars

Claimed == snd.pc = "claimed"
SoundHonest == HonestOutput(snd.c, snd.s)

\* d and h hold the same rows with the same multiplicities, in any order
SameRows(d, h) ==
    /\ ColumnsLen(d) = ColumnsLen(h)
    /\ \E p \in [1 .. ColumnsLen(h) -> 1 .. ColumnsLen(h)] :
          /\ \A i, j \in DOMAIN p : i # j => p[i] # p[j]
          /\ \A k \in DOMAIN h : \A i \in DOMAIN p : d[k][i] = h[k][p[i]]

\* the challenge pairs at which the honest output has its c_star and d_star
HonestPasses(chs) == Satisfiable(chs, snd.c, snd.s, SoundHonest)
ClaimPasses(chs) == Satisfiable(chs, snd.c, snd.s, snd.d)

ExchangedRowsPass ==
    (Claimed /\ snd.how = "exchanged") =>
        \A chs \in ChallengePairs : HonestPasses(chs) <=> ClaimPasses(chs)

ExchangedRowsDiffer ==
    /\ Claimed
    /\ snd.how = "exchanged"
    /\ snd.d # SoundHonest
    /\ \E chs \in ChallengePairs : chs[1] # 0 /\ HonestPasses(chs)

\* C4: if d is the honest output with one cell changed, there is a challenge
\* pair at which the honest output has its c_star and d_star and for which
\* no c_star, d_star satisfy the four identities with d.
C4_ChangedCellFails ==
    (Claimed /\ snd.how = "cell") =>
        \E chs \in ChallengePairs :
            /\ HonestPasses(chs)
            /\ ~ClaimPasses(chs)

C4_Witness ==
    /\ snd.pc = "tried"
    /\ snd.how = "cell"
    /\ ColumnsLen(snd.d) >= 2
    /\ HonestPasses(snd.challenge)
    /\ ~snd.satisfied

(***************************************************************************)
(* Expression trees: an EqualsExpr whose operands are column references,   *)
(* literals or EqualsExpr nodes again.  Every evaluation also returns the  *)
(* nodes in the order it evaluated them.                                   *)
(***************************************************************************)
ColumnNode(id, k) == [kind |-> "column", id |-> id, k |-> k]
LiteralNode(id, x) == [kind |-> "literal", id |-> id, x |-> x]
EqualsNode(id, lhs, rhs) == [kind |-> "equals", id |-> id, lhs |-> lhs, rhs |-> rhs]

Exprs ==
    { EqualsNode("e", ColumnNode("e.lhs", 1), LiteralNode("e.rhs", 1)),
      EqualsNode("e", ColumnNode("e.lhs", 1), ColumnNode("e.rhs", 2)),
      EqualsNode("e", EqualsNode("e.lhs", ColumnNode("e.lhs.lhs", 1),
                                          LiteralNode("e.lhs.rhs", 1)),
                      EqualsNode("e.rhs", ColumnNode("e.rhs.lhs", 2),
                                          LiteralNode("e.rhs.rhs", 0))),
      EqualsNode("e", EqualsNode("e.lhs", ColumnNode("e.lhs.lhs", 1),
                                          ColumnNode("e.lhs.rhs", 2)),
                      LiteralNode("e.rhs", 1)) }

RECURSIVE DynFirstRoundEvaluate(_, _)
RECURSIVE DynFinalRoundEvaluate(_, _, _)
RECURSIVE DynVerifierEvaluate(_, _, _, _)

\* EqualsExpr::first_round_evaluate
EqualsExprFirstRoundEvaluate(e, t) ==
    LET lhs_column == DynFirstRoundEvaluate(e.lhs, t)
        rhs_column == DynFirstRoundEvaluate(e.rhs, t)
        res == add_subtract_columns(lhs_column.col, rhs_column.col)
    IN  [col |-> AsScalars(first_round_evaluate_equals_zero(NumRows(t), res)),
         visits |-> lhs_column.visits \o rhs_column.visits \o << e.id >>]

DynFirstRoundEvaluate(e, t) ==
    CASE e.kind = "column" -> [col |-> ColumnRefEvaluate(t, e.k), visits |-> << e.id >>]
      [] e.kind = "literal" -> [col |-> LiteralEvaluate(t, e.x), visits |-> << e.id >>]
      [] e.kind = "equals" -> EqualsExprFirstRoundEvaluate(e, t)

\* EqualsExpr::final_round_evaluate
EqualsExprFinalRoundEvaluate(e, builder, t) ==
    LET lhs_column == DynFinalRoundEvaluate(e.lhs, builder, t)
        rhs_column == DynFinalRoundEvaluate(e.rhs, lhs_column.builder, t)
        scale_and_subtract_res == add_subtract_columns(lhs_column.col, rhs_column.col)
        res == final_round_evaluate_equals_zero(NumRows(t), rhs_column.builder,
                                                scale_and_subtract_res)
    IN  [col |-> AsScalars(res.selection), builder |-> res.builder,
         visits |-> lhs_column.visits \o rhs_column.visits \o << e.id >>]

DynFinalRoundEvaluate(e, builder, t) ==
    CASE e.kind = "column" ->
             [col |-> ColumnRefEvaluate(t, e.k), builder |-> builder, visits |-> << e.id >>]
      [] e.kind = "literal" ->
             [col |-> LiteralEvaluate(t, e.x), builder |-> builder, visits |-> << e.id >>]
      [] e.kind = "equals" -> EqualsExprFinalRoundEvaluate(e, builder, t)

\* the result of a verifier call together with the nodes it evaluated
Visited(r, visits) == [ok |-> r.ok, val |-> r.val, b |-> r.b, visits |-> visits]

\* variant: the verifier evaluates rhs before lhs
EqualsExprVerifierEvaluate_RhsFirst(e, builder, accessor, chi_eval) ==
    LET rhs_eval == DynVerifierEvaluate(e.rhs, builder, accessor, chi_eval)
    IN  IF ~rhs_eval.ok THEN rhs_eval ELSE
    LET lhs_eval == DynVerifierEvaluate(e.lhs, rhs_eval.b, accessor, chi_eval)
    IN  IF ~lhs_eval.ok THEN Visited(lhs_eval, rhs_eval.visits \o lhs_eval.visits) ELSE
        Visited(verifier_evaluate_equals_zero(lhs_eval.b, FSub(lhs_eval.val, rhs_eval.val),
                                              chi_eval),
                rhs_eval.visits \o lhs_eval.visits \o << e.id >>)

\* EqualsExpr::verifier_evaluate
EqualsExprVerifierEvaluate(e, builder, accessor, chi_eval) ==
    LET lhs_eval == DynVerifierEvaluate(e.lhs, builder, accessor, chi_eval)
    IN  IF ~lhs_eval.ok THEN lhs_eval ELSE
    LET rhs_eval == DynVerifierEvaluate(e.rhs, lhs_eval.b, accessor, chi_eval)
    IN  IF ~rhs_eval.ok THEN Visited(rhs_eval, lhs_eval.visits \o rhs_eval.visits) ELSE
        Visited(verifier_evaluate_equals_zero(rhs_eval.b, FSub(lhs_eval.val, rhs_eval.val),
                                              chi_eval),
                lhs_eval.visits \o rhs_eval.visits \o << e.id >>)

DynVerifierEvaluate(e, builder, accessor, chi_eval) ==
    CASE e.kind = "column" ->
             Visited(Ok(ColumnRefVerifierEvaluate(accessor, e.k), builder), << e.id >>)
      [] e.kind = "literal" ->
             Visited(Ok(LiteralVerifierEvaluate(chi_eval, e.x), builder), << e.id >>)
      [] e.kind = "equals" -> EqualsExprVerifierEvaluate(e, builder, accessor, chi_eval)

ExprInit ==
    /\ FilterIdle
    /\ eq = NoEq
    /\ snd = NoSound
    /\ cm = NoCommit
    /\ cc = NoColumns
    /\ run = NoRun
    /\ \E e \in Exprs, t \in Tables :
          ex = [NoExpr EXCEPT !.pc = "start", !.expr = e, !.table = t]

ExprFirstRound ==
    /\ ex.pc = "start"
    /\ ex' = [ex EXCEPT !.pc = "first_done",
                        !.first = DynFirstRoundEvaluate(ex.expr, ex.table)]
    /\ UNCHANGED << fvars, eq, cm, snd, cc, run >>

ExprFinalRound ==
    /\ ex.pc = "first_done"
    /\ LET r == DynFinalRoundEvaluate(ex.expr, ex.builder, ex.table)
       IN  ex' = [ex EXCEPT !.pc = "final_done", !.final = r.col,
                            !.builder = r.builder, !.visits = r.visits]
    /\ UNCHANGED << fvars, eq, cm, snd, cc, run >>

\* the verifier on the honest proof opened at one row
ExprVerifierEvaluate ==
    /\ ex.pc = "final_done"
    /\ \E row \in 1 .. (NumRows(ex.table) + 1) :
          LET inputs == VerifierInputs(ex.table, row, "none")
              builder == NewVerificationBuilder(
                             [k \in DOMAIN ex.builder.mles |->
                                 [tag |-> ex.builder.mles[k].name,
                                  val |-> MleEvalAt(ex.builder.mles[k].col, row)]],
                             <<>>, <<>>)
              r == DynVerifierEvaluate(ex.expr, builder, inputs.accessor,
                                       inputs.input_chi_eval)
          IN  ex' = [ex EXCEPT !.pc = "verified", !.opened = inputs, !.vb = r.b,
                               !.vresult = [ok |-> r.ok,
                                            val |-> IF r.ok THEN r.val ELSE "ProofError"],
                               !.vvisits = r.visits]
    /\ UNCHANGED << fvars, eq, cm, snd, cc, run >>

ExprNext == ExprFirstRound \/ ExprFinalRound \/ ExprVerifierEvaluate

SpecExpr == ExprInit /\ [][ExprNext]_vars

\* the nodes of a tree with lhs before rhs and both before their parent
RECURSIVE PostOrder(_)
PostOrder(e) ==
    IF e.kind = "equals" THEN PostOrder(e.lhs) \o PostOrder(e.rhs) \o << e.id >>
    ELSE << e.id >>

RECURSIVE NumGadgets(_)
NumGadgets(e) ==
    IF e.kind = "equals" THEN NumGadgets(e.lhs) + NumGadgets(e.rhs) + 1 ELSE 0

FactorNames(term) == [f \in DOMAIN term.factors |-> term.factors[f].name]
ExprVerified == ex.pc = "verified"

\* C11: prover and verifier of EqualsExpr evaluate lhs, then rhs, then the
\* gadget; each gadget emits the MLEs lhs_pseudo_inv and selection and the
\* Identity subpolynomials selection * lhs and selection_not - lhs *
\* lhs_pseudo_inv in that order; the verifier consumes the evaluations in
\* that order, produces the Identity evaluations in that order (each the
\* value of the prover's subpolynomial at the opened row), and returns the
\* selection evaluation of the root.
C11_EqualsTraversalOrder ==
    ExprVerified =>
        LET g == NumGadgets(ex.expr)
            row == ex.opened.row
        IN  /\ ex.first.visits = PostOrder(ex.expr)
            /\ ex.visits = PostOrder(ex.expr)
            /\ ex.vvisits = PostOrder(ex.expr)
            /\ Len(ex.builder.mles) = 2 * g
            /\ Len(ex.builder.subpolys) = 2 * g
            /\ \A k \in 1 .. g :
                  /\ ex.builder.mles[2 * k - 1].name = "lhs_pseudo_inv"
                  /\ ex.builder.mles[2 * k].name = "selection"
                  /\ ex.builder.subpolys[2 * k - 1].type = "Identity"
                  /\ Len(ex.builder.subpolys[2 * k - 1].terms) = 1
                  /\ FactorNames(ex.builder.subpolys[2 * k - 1].terms[1])
                        = << "lhs", "selection" >>
                  /\ ex.builder.subpolys[2 * k].type = "Identity"
                  /\ Len(ex.builder.subpolys[2 * k].terms) = 2
                  /\ FactorNames(ex.builder.subpolys[2 * k].terms[1]) = << "selection_not" >>
                  /\ FactorNames(ex.builder.subpolys[2 * k].terms[2])
                        = << "lhs", "lhs_pseudo_inv" >>
            /\ ex.vresult.ok
            /\ ex.vb.consumed_mle = 2 * g
            /\ ex.vb.bound = [k \in DOMAIN ex.builder.mles |-> ex.builder.mles[k].name]
            /\ Len(ex.vb.produced) = 2 * g
            /\ \A k \in DOMAIN ex.vb.produced :
                  /\ ex.vb.produced[k].type = "Identity"
                  /\ ex.vb.produced[k].eval = SubpolyAt(ex.builder.subpolys[k], row)
            /\ ex.vresult.val = ex.vb.mle_evaluations[2 * g].val
            /\ ex.vresult.val = MleEvalAt(ex.final, row)
            /\ ex.first.col = ex.final

C11_Witness ==
    /\ ExprVerified
    /\ ex.expr.lhs.kind = "equals"
    /\ ex.expr.rhs.kind = "equals"
    /\ ex.opened.row \in 1 .. NumRows(ex.table)
    /\ \E i, j \in DOMAIN ex.final : ex.final[i] = 1 /\ ex.final[j] = 0
    /\ ex.vresult.ok
    /\ ex.vvisits = ex.visits

(***************************************************************************)
(* HyperKZGCommitment: a point of the group G1, here the curve             *)
(* y^2 = x^3 + CurveB over the field of CurveQ elements; a commitment is   *)
(* kept as the affine point of its projective class.  BNScalar is the      *)
(* field whose size is the order of the group.                             *)
(***************************************************************************)
CurveQ == 7
CurveB == 3
Fq == 0 .. (CurveQ - 1)
QAdd(a, b) == (a + b) % CurveQ
QSub(a, b) == (a + CurveQ - b) % CurveQ
QMul(a, b) == (a * b) % CurveQ
RECURSIVE QPow(_, _)
QPow(a, k) == IF k = 0 THEN 1 ELSE QMul(a, QPow(a, k - 1))
QInv(a) == QPow(a, CurveQ - 2)

G1Identity == [x |-> 0, y |-> 0, infinity |-> TRUE]
G1Affine(x, y) == [x |-> x, y |-> y, infinity |-> FALSE]
OnCurve(x, y) == QMul(y, y) = QAdd(QMul(x, QMul(x, x)), CurveB)
G1Points == {G1Identity} \cup { G1Affine(w[1], w[2]) : w \in { v \in Fq \X Fq : OnCurve(v[1], v[2]) } }
G1Generator == G1Affine(1, 2)

\* G1Projective + G1Projective
G1Add(p, q) ==
    IF p.infinity THEN q
    ELSE IF q.infinity THEN p
    ELSE IF p.x = q.x /\ QAdd(p.y, q.y) = 0 THEN G1Identity
    ELSE LET l == IF p = q
                  THEN QMul(QMul(3, QMul(p.x, p.x)), QInv(QMul(2, p.y)))
                  ELSE QMul(QSub(q.y, p.y), QInv(QSub(q.x, p.x)))
             x3 == QSub(QSub(QMul(l, l), p.x), q.x)
         IN  G1Affine(x3, QSub(QMul(l, QSub(p.x, x3)), p.y))

\* G1Projective * scalar
RECURSIVE G1Mul(_, _)
G1Mul(p, k) == IF k = 0 THEN G1Identity ELSE G1Add(p, G1Mul(p, k - 1))

RECURSIVE G1Sum(_)
G1Sum(points) == IF points = <<>> THEN G1Identity ELSE G1Add(Head(points), G1Sum(Tail(points)))

GroupOrder == Cardinality(G1Points)
BNScalars == 0 .. (GroupOrder - 1)
BNAdd(a, b) == (a + b) % GroupOrder
BNMul(a, b) == (a * b) % GroupOrder
BNNeg(a) == (GroupOrder - a) % GroupOrder

HyperKZGCommitment(point) == [commitment |-> point]

\* impl AddAssign, Mul<&HyperKZGCommitment> for BNScalar, Neg, SubAssign
CommitmentAddAssign(self, rhs) == HyperKZGCommitment(G1Add(self.commitment, rhs.commitment))
\* variant: multiplies by the square of the scalar
CommitmentMul_Squared(scalar, rhs) ==
    HyperKZGCommitment(G1Mul(rhs.commitment, BNMul(scalar, scalar)))
CommitmentMul(scalar, rhs) == HyperKZGCommitment(G1Mul(rhs.commitment, scalar))
CommitmentNeg(self) == CommitmentMul(BNNeg(1), self)
CommitmentSubAssign(self, rhs) == CommitmentAddAssign(self, CommitmentNeg(rhs))

\* the reference backend: sum of scalars[i] * setup[offset + i]; the assert
\* of compute_commitment_generic_impl panics when the setup is too short
compute_commitment_generic_impl_asserts(setup, offset, scalars) ==
    offset + Len(scalars) <= Len(setup)

compute_commitment_generic_impl(setup, offset, scalars) ==
    HyperKZGCommitment(
        G1Sum([i \in 1 .. Len(scalars) |-> G1Mul(setup[offset + i], scalars[i])]))

compute_commitments_impl_panics(committable_columns, offset, setup) ==
    \E k \in DOMAIN committable_columns :
        ~compute_commitment_generic_impl_asserts(setup, offset, committable_columns[k])

compute_commitments_impl(committable_columns, offset, setup) ==
    [k \in DOMAIN committable_columns |->
        compute_commitment_generic_impl(setup, offset, committable_columns[k])]

\* the accelerated backend: the external routine writes, for every column,
\* the sum of its entries times the generators it is given, over a buffer
\* of default (identity) points
MaxOf(S) == CHOOSE x \in S : \A y \in S : y <= x

compute_bn254_g1_uncompressed_commitments_with_generators(commitments, columns, generators) ==
    [k \in DOMAIN commitments |->
        G1Sum([i \in 1 .. Len(columns[k]) |-> G1Mul(generators[i], columns[k][i])])]

slice_cast(points) == [k \in DOMAIN points |-> HyperKZGCommitment(points[k])]

compute_commitments_panics(committable_columns, offset, setup) ==
    /\ committable_columns # <<>>
    /\ offset + MaxOf({ Len(committable_columns[k]) : k \in DOMAIN committable_columns })
          > Len(setup)

\* variant: the generators are taken from the start of the setup
compute_commitments_NoOffset(committable_columns, offset, setup) ==
    IF committable_columns = <<>> THEN <<>>
    ELSE LET max_column_len ==
                 MaxOf({ Len(committable_columns[k]) : k \in DOMAIN committable_columns })
             blitzar_commitments == [k \in DOMAIN committable_columns |-> G1Identity]
         IN  slice_cast(compute_bn254_g1_uncompressed_commitments_with_generators(
                            blitzar_commitments, committable_columns,
                            SubSeq(setup, 1, max_column_len)))

compute_commitments(committable_columns, offset, setup) ==
    IF committable_columns = <<>> THEN <<>>
    ELSE LET max_column_len ==
                 MaxOf({ Len(committable_columns[k]) : k \in DOMAIN committable_columns })
             blitzar_commitments == [k \in DOMAIN committable_columns |-> G1Identity]
         IN  slice_cast(compute_bn254_g1_uncompressed_commitments_with_generators(
                            blitzar_commitments, committable_columns,
                            SubSeq(setup, offset + 1, offset + max_column_len)))

\* serde: the affine x then y as big-endian bytes, zero bytes for the identity
CoordinateBytes == 32
ByteBase == 2 ^ 8
\* CanonicalSerialize::serialize_uncompressed of a field element: little-endian bytes
RECURSIVE little_endian_bytes(_, _)
little_endian_bytes(x, n) ==
    IF n = 0 THEN <<>> ELSE << x % ByteBase >> \o little_endian_bytes(x \div ByteBase, n - 1)
serialize_uncompressed(x) == little_endian_bytes(x, CoordinateBytes)
RECURSIVE deserialize_uncompressed_from(_, _)
deserialize_uncompressed_from(bytes, i) ==
    IF i > Len(bytes) THEN 0
    ELSE bytes[i] + ByteBase * deserialize_uncompressed_from(bytes, i + 1)
deserialize_uncompressed(bytes) == deserialize_uncompressed_from(bytes, 1)
reverse(bytes) == [i \in DOMAIN bytes |-> bytes[Len(bytes) + 1 - i]]
ZeroBytes == [i \in 1 .. CoordinateBytes |-> 0]

\* variant: the y bytes are left little-endian
Serialize_NoReverse(self) ==
    LET affine == self.commitment
    IN  IF affine.infinity THEN << ZeroBytes, ZeroBytes >>
        ELSE << reverse(serialize_uncompressed(affine.x)),
                serialize_uncompressed(affine.y) >>

Serialize(self) ==
    LET affine == self.commitment
    IN  IF affine.infinity THEN << ZeroBytes, ZeroBytes >>
        ELSE << reverse(serialize_uncompressed(affine.x)),
                reverse(serialize_uncompressed(affine.y)) >>

\* variant: a pair that is not a point of the curve is read as the identity
Deserialize_OnCurveOnly(pair) ==
    LET x == deserialize_uncompressed(reverse(pair[1]))
        y == deserialize_uncompressed(reverse(pair[2]))
    IN  IF pair = << ZeroBytes, ZeroBytes >> \/ ~OnCurve(x, y)
        THEN HyperKZGCommitment(G1Identity)
        ELSE HyperKZGCommitment(G1Affine(x, y))

Deserialize(pair) ==
    LET x_bytes == pair[1]
        y_bytes == pair[2]
    IN  IF << x_bytes, y_bytes >> = << ZeroBytes, ZeroBytes >>
        THEN HyperKZGCommitment(G1Identity)
        ELSE HyperKZGCommitment(G1Affine(deserialize_uncompressed(reverse(x_bytes)),
                                         deserialize_uncompressed(reverse(y_bytes))))

(***************************************************************************)
(* A session of commitments: columns are committed by both backends, two   *)
(* commitments are combined, and a commitment is serialized and read back. *)
(***************************************************************************)
\* the setup: powers of a trapdoor times the generator
SetupLen == MaxRows + 1
SetupTau == 2
PublicSetup == [i \in 1 .. SetupLen |-> G1Mul(G1Generator, (SetupTau ^ (i - 1)) % GroupOrder)]

\* column entries as BNScalars: small values and -1
CommitVals == {0, 1, BNNeg(1)}
CommitColumns == UNION { [1 .. n -> CommitVals] : n \in 0 .. MaxRows }
CommitColumnLists == {<<>>} \cup { << f >> : f \in CommitColumns }
                            \cup { << w[1], w[2] >> : w \in CommitColumns \X CommitColumns }

OthersIdle ==
    /\ FilterIdle
    /\ eq = NoEq
    /\ ex = NoExpr
    /\ snd = NoSound

CommitInit ==
    /\ OthersIdle
    /\ cc = NoColumns
    /\ run = NoRun
    /\ \E columns \in CommitColumnLists, offset \in 0 .. 1 :
          cm = [NoCommit EXCEPT !.pc = "start", !.setup = PublicSetup,
                                !.offset = offset, !.columns = columns]

\* both backends on the same columns, offset and setup
ComputeCommitments ==
    /\ cm.pc = "start"
    /\ IF \/ compute_commitments_impl_panics(cm.columns, cm.offset, cm.setup)
          \/ compute_commitments_panics(cm.columns, cm.offset, cm.setup)
       THEN cm' = [cm EXCEPT !.pc = "panicked",
                      !.reference =
                          compute_commitments_impl_panics(cm.columns, cm.offset, cm.setup),
                      !.accelerated =
                          compute_commitments_panics(cm.columns, cm.offset, cm.setup)]
       ELSE cm' = [cm EXCEPT !.pc = "committed",
                      !.reference = compute_commitments_impl(cm.columns, cm.offset, cm.setup),
                      !.accelerated = compute_commitments(cm.columns, cm.offset, cm.setup)]
    /\ UNCHANGED << fvars, eq, ex, snd, cc, run >>

\* commit(f) += commit(g), and s * commit(f)
CombineCommitments ==
    /\ cm.pc = "committed"
    /\ Len(cm.columns) = 2
    /\ Len(cm.columns[1]) = Len(cm.columns[2])
    /\ \E s \in BNScalars :
          cm' = [cm EXCEPT !.pc = "combined", !.scalar = s,
                           !.sum = CommitmentAddAssign(cm.reference[1], cm.reference[2]),
                           !.product = CommitmentMul(s, cm.reference[1])]
    /\ UNCHANGED << fvars, eq, ex, snd, cc, run >>

SerializeCommitment ==
    /\ cm.pc = "combined"
    /\ \E c \in {cm.sum, cm.product} :
          cm' = [cm EXCEPT !.pc = "serialized", !.value = c, !.bytes = Serialize(c)]
    /\ UNCHANGED << fvars, eq, ex, snd, cc, run >>

DeserializeCommitment ==
    /\ cm.pc = "serialized"
    /\ cm' = [cm EXCEPT !.pc = "deserialized", !.decoded = Deserialize(cm.bytes)]
    /\ UNCHANGED << fvars, eq, ex, snd, cc, run >>

CommitNext ==
    \/ ComputeCommitments
    \/ CombineCommitments
    \/ SerializeCommitment
    \/ DeserializeCommitment

SpecCommit == CommitInit /\ [][CommitNext]_vars

\* commit(v) = sum over i of v[i] * setup[offset + i]
Commit(v) == compute_commitment_generic_impl(cm.setup, cm.offset, v)
ColumnSum(f, g) == [i \in DOMAIN f |-> BNAdd(f[i], g[i])]
ColumnScaled(s, f) == [i \in DOMAIN f |-> BNMul(s, f[i])]

\* C12: for columns f, g of equal length committed at the same offset with
\* the same setup and every scalar s, commit(f) + commit(g) = commit(f + g)
\* and s * commit(f) = commit(s * f), with AddAssign and Mul of
\* HyperKZGCommitment.
C12_CommitmentHomomorphism ==
    cm.pc = "combined" =>
        /\ cm.reference[1] = Commit(cm.columns[1])
        /\ cm.reference[2] = Commit(cm.columns[2])
        /\ cm.sum = Commit(ColumnSum(cm.columns[1], cm.columns[2]))
        /\ cm.product = Commit(ColumnScaled(cm.scalar, cm.columns[1]))

C12_Witness ==
    /\ cm.pc = "combined"
    /\ cm.offset = 1
    /\ Len(cm.columns[1]) >= 2
    /\ cm.columns[1] # cm.columns[2]
    /\ cm.scalar > 1
    /\ ~cm.sum.commitment.infinity
    /\ ~cm.product.commitment.infinity
    /\ cm.product # cm.reference[1]
    /\ cm.sum # cm.reference[1]

LongestColumn(columns) == MaxOf({0} \cup { Len(columns[k]) : k \in DOMAIN columns })

\* C13: for every list of columns, offset and setup with offset + (longest
\* column length) <= setup.len(), the accelerated compute_commitments and
\* the reference compute_commitments_impl return the same list of
\* commitments, also for the empty list and for columns of length 0.
C13_BackendsAgree ==
    /\ cm.pc = "committed" =>
          /\ cm.reference = cm.accelerated
          /\ Len(cm.reference) = Len(cm.columns)
    /\ cm.pc = "panicked" =>
          cm.offset + LongestColumn(cm.columns) > Len(cm.setup)

C13_Witness ==
    /\ cm.pc = "committed"
    /\ cm.offset = 1
    /\ Len(cm.columns) = 2
    /\ Len(cm.columns[1]) = 0
    /\ Len(cm.columns[2]) >= 2
    /\ ~cm.accelerated[2].commitment.infinity
    /\ cm.reference = cm.accelerated

\* C14: deserialize(serialize(c)) = c for every commitment c; the identity
\* serializes to 64 zero bytes, which deserialize to the identity; any other
\* point serializes to its affine x then y, each as 32 big-endian bytes.
C14_SerializationRoundTrip ==
    /\ cm.pc = "deserialized" =>
          /\ cm.decoded = cm.value
          /\ cm.bytes = << ZeroBytes, ZeroBytes >> => cm.decoded.commitment.infinity
    /\ cm.pc \in {"serialized", "deserialized"} =>
          /\ Len(cm.bytes) = 2
          /\ Len(cm.bytes[1]) = CoordinateBytes
          /\ Len(cm.bytes[2]) = CoordinateBytes
          /\ cm.value.commitment.infinity =>
                \A k \in 1 .. 2 : \A i \in 1 .. CoordinateBytes : cm.bytes[k][i] = 0
          /\ ~cm.value.commitment.infinity =>
                /\ cm.bytes[1][CoordinateBytes] = cm.value.commitment.x
                /\ cm.bytes[2][CoordinateBytes] = cm.value.commitment.y
                /\ \A k \in 1 .. 2 : \A i \in 1 .. (CoordinateBytes - 1) : cm.bytes[k][i] = 0
          /\ cm.bytes = << ZeroBytes, ZeroBytes >> => cm.value.commitment.infinity

C14_Witness ==
    /\ cm.pc = "deserialized"
    /\ ~cm.value.commitment.infinity
    /\ cm.value.commitment.x > 1
    /\ cm.decoded = cm.value

C14_WitnessIdentity ==
    /\ cm.pc = "deserialized"
    /\ cm.value.commitment.infinity
    /\ cm.decoded.commitment.infinity

\* ------------------------------------------------------------------------
\* ColumnCommitments: commitments for a collection of columns with metadata
\* (crates/proofs/src/base/commitment/column_commitments.rs).
\* The Ristretto group of the commitments is modelled by the group G1Points of
\* prime order, and blitzar's generators by the points of PublicSetup.
\* ------------------------------------------------------------------------

Identifiers == {"a", "b"}
ColumnTypes == {"BigInt", "VarChar"}

\* Result<T, E>; a failed expect() is a panic
ResultOk(value) == [tag |-> "Ok", value |-> value]
ResultErr(error) == [tag |-> "Err", error |-> error]
ResultPanic == [tag |-> "ResultPanic"]
IsOk(result) == result.tag = "Ok"

OwnedColumn(column_type, data) == [column_type |-> column_type, data |-> data]

\* Bounds<T>: Empty, Sharp(min, max) or Bounded(min, max)
BoundsEmpty == [kind |-> "Empty", min |-> 0, max |-> 0]
BoundsSharp(min, max) == [kind |-> "Sharp", min |-> min, max |-> max]
BoundsBounded(min, max) == [kind |-> "Bounded", min |-> min, max |-> max]
MinOf(S) == CHOOSE x \in S : \A y \in S : x <= y
Range(seq) == { seq[i] : i \in DOMAIN seq }

\* Bounds::from_iter
BoundsFromIter(data) ==
    IF data = <<>> THEN BoundsEmpty ELSE BoundsSharp(MinOf(Range(data)), MaxOf(Range(data)))

\* Bounds::union
BoundsUnion(a, b) ==
    IF b.kind = "Empty" THEN a
    ELSE IF a.kind = "Empty" THEN b
    ELSE LET min == MinOf({a.min, b.min})
             max == MaxOf({a.max, b.max})
         IN  IF a.kind = "Sharp" /\ b.kind = "Sharp"
             THEN BoundsSharp(min, max) ELSE BoundsBounded(min, max)

\* Bounds::surrounds
BoundsSurrounds(b, value) == b.kind # "Empty" /\ b.min <= value /\ value <= b.max

\* Bounds::difference
BoundsDifference(a, b) ==
    IF a.kind = "Empty" THEN BoundsEmpty
    ELSE IF b.kind = "Empty" THEN a
    ELSE IF a.kind = "Sharp" /\ (BoundsSurrounds(b, a.min) \/ BoundsSurrounds(b, a.max))
    THEN BoundsBounded(a.min, a.max)
    ELSE a

\* ColumnBounds: NoOrder, or the bounds of a column of integers
ColumnBoundsNoOrder == [variant |-> "NoOrder", bounds |-> BoundsEmpty]
ColumnBoundsBigInt(bounds) == [variant |-> "BigInt", bounds |-> bounds]

\* ColumnBounds::from_column
ColumnBoundsFromColumn(column) ==
    IF column.column_type = "BigInt"
    THEN ColumnBoundsBigInt(BoundsFromIter(column.data)) ELSE ColumnBoundsNoOrder

\* ColumnBounds::try_union and ColumnBounds::try_difference
ColumnBoundsTryUnion(a, b) ==
    IF a.variant # b.variant THEN ResultErr("ColumnCommitmentMetadata")
    ELSE IF a.variant = "NoOrder" THEN ResultOk(ColumnBoundsNoOrder)
    ELSE ResultOk(ColumnBoundsBigInt(BoundsUnion(a.bounds, b.bounds)))
ColumnBoundsTryDifference(a, b) ==
    IF a.variant # b.variant THEN ResultErr("ColumnCommitmentMetadata")
    ELSE IF a.variant = "NoOrder" THEN ResultOk(ColumnBoundsNoOrder)
    ELSE ResultOk(ColumnBoundsBigInt(BoundsDifference(a.bounds, b.bounds)))

\* ColumnCommitmentMetadata: a column type and the bounds of its values
ColumnCommitmentMetadata(column_type, bounds) == [column_type |-> column_type, bounds |-> bounds]
MetadataFromColumn(column) ==
    ColumnCommitmentMetadata(column.column_type, ColumnBoundsFromColumn(column))

\* ColumnCommitmentMetadata::try_union and ColumnCommitmentMetadata::try_difference
MetadataTryUnion(a, b) ==
    IF a.column_type # b.column_type THEN ResultErr("ColumnCommitmentMetadata")
    ELSE LET bounds == ColumnBoundsTryUnion(a.bounds, b.bounds)
         IN  IF IsOk(bounds) THEN ResultOk(ColumnCommitmentMetadata(a.column_type, bounds.value))
             ELSE bounds
MetadataTryDifference(a, b) ==
    IF a.column_type # b.column_type THEN ResultErr("ColumnCommitmentMetadata")
    ELSE LET bounds == ColumnBoundsTryDifference(a.bounds, b.bounds)
         IN  IF IsOk(bounds) THEN ResultOk(ColumnCommitmentMetadata(a.column_type, bounds.value))
             ELSE bounds

\* IndexMap<Identifier, ColumnCommitmentMetadata>: entries in insertion order, one
\* for each key; inserting an existing key replaces its value in place
Entry(identifier, metadata) == [identifier |-> identifier, metadata |-> metadata]
IndexMapContainsKey(map, key) == \E i \in DOMAIN map : map[i].identifier = key
IndexMapGetIndexOf(map, key) == CHOOSE i \in DOMAIN map : map[i].identifier = key
IndexMapInsert(map, entry) ==
    IF IndexMapContainsKey(map, entry.identifier)
    THEN [map EXCEPT ![IndexMapGetIndexOf(map, entry.identifier)] = entry]
    ELSE Append(map, entry)
RECURSIVE IndexMapExtend(_, _)
IndexMapExtend(map, entries) ==
    IF entries = <<>> THEN map
    ELSE IndexMapExtend(IndexMapInsert(map, Head(entries)), Tail(entries))
IndexMapFromIter(entries) == IndexMapExtend(<<>>, entries)
Keys(map) == [i \in DOMAIN map |-> map[i].identifier]

\* ColumnCommitmentMetadataMap::from_columns
MetadataMapFromColumns(columns) ==
    IndexMapFromIter([i \in DOMAIN columns |->
                        Entry(columns[i].identifier, MetadataFromColumn(columns[i].column))])

\* ColumnCommitmentMetadataMap::try_union: the maps are zipped; the first entry
\* that differs in identifier or cannot be merged gives the error
MetadataMapTryUnion(a, b) ==
    IF Len(a) # Len(b) THEN ResultErr("NumColumns")
    ELSE LET merged == [i \in DOMAIN a |-> MetadataTryUnion(a[i].metadata, b[i].metadata)]
             bad == { i \in DOMAIN a : a[i].identifier # b[i].identifier \/ ~IsOk(merged[i]) }
         IN  IF bad = {}
             THEN ResultOk(IndexMapFromIter([i \in DOMAIN a |->
                                               Entry(a[i].identifier, merged[i].value)]))
             ELSE IF a[MinOf(bad)].identifier # b[MinOf(bad)].identifier
             THEN ResultErr("Identifier")
             ELSE ResultErr("ColumnCommitmentMetadata")

\* ColumnCommitmentMetadataMap::try_difference
MetadataMapTryDifference(a, b) ==
    IF Len(a) # Len(b) THEN ResultErr("NumColumns")
    ELSE LET merged == [i \in DOMAIN a |-> MetadataTryDifference(a[i].metadata, b[i].metadata)]
             bad == { i \in DOMAIN a : a[i].identifier # b[i].identifier \/ ~IsOk(merged[i]) }
         IN  IF bad = {}
             THEN ResultOk(IndexMapFromIter([i \in DOMAIN a |->
                                               Entry(a[i].identifier, merged[i].value)]))
             ELSE IF a[MinOf(bad)].identifier # b[MinOf(bad)].identifier
             THEN ResultErr("Identifier")
             ELSE ResultErr("ColumnCommitmentMetadata")

\* blitzar's generators and the commitment to one column: the sum of its entries
\* times the generators from the offset on
Generators == PublicSetup
RistrettoCommitment(data, offset) ==
    G1Sum([i \in DOMAIN data |-> G1Mul(Generators[offset + i], data[i] % GroupOrder)])
G1Neg(p) == G1Mul(p, GroupOrder - 1)

\* VecCommitmentExt for Vec<CompressedRistretto>
from_columns_with_offset(committable_columns, offset) ==
    [i \in DOMAIN committable_columns |->
        RistrettoCommitment(committable_columns[i].data, offset)]
VecTryAppendRowsWithOffset(self, committable_columns, offset) ==
    IF Len(self) # Len(committable_columns) THEN ResultErr("NumColumnsMismatch")
    ELSE ResultOk([i \in DOMAIN self |->
                     G1Add(self[i], RistrettoCommitment(committable_columns[i].data, offset))])
VecTryAdd(self, other) ==
    IF Len(self) # Len(other) THEN ResultErr("NumColumnsMismatch")
    ELSE ResultOk([i \in DOMAIN self |-> G1Add(self[i], other[i])])
VecTrySub(self, other) ==
    IF Len(self) # Len(other) THEN ResultErr("NumColumnsMismatch")
    ELSE ResultOk([i \in DOMAIN self |-> G1Add(self[i], G1Neg(other[i]))])

\* struct ColumnCommitments
ColumnCommitments(commitments, column_metadata) ==
    [commitments |-> commitments, column_metadata |-> column_metadata]

\* the columns handed to an operation: pairs of an identifier and a column
Column(identifier, column) == [identifier |-> identifier, column |-> column]
CommittableColumns(columns) == [i \in DOMAIN columns |-> columns[i].column]

\* unique_identifiers.insert(identifier) fails for some column
RepeatsIdentifier(columns) ==
    \E i, j \in DOMAIN columns : i < j /\ columns[i].identifier = columns[j].identifier

\* ColumnCommitments::len
ColumnCommitmentsLen(self) == Len(self.column_metadata)

\* Option<T>
Some(value) == << value >>
None == <<>>

\* ColumnCommitments::get_commitment and ColumnCommitments::get_metadata
get_commitment(self, identifier) ==
    IF IndexMapContainsKey(self.column_metadata, identifier)
    THEN Some(self.commitments[IndexMapGetIndexOf(self.column_metadata, identifier)])
    ELSE None
get_metadata(self, identifier) ==
    IF IndexMapContainsKey(self.column_metadata, identifier)
    THEN Some(self.column_metadata[IndexMapGetIndexOf(self.column_metadata, identifier)].metadata)
    ELSE None

\* ColumnCommitments::try_from_columns_with_offset
try_from_columns_with_offset(columns, offset) ==
    IF RepeatsIdentifier(columns) THEN ResultErr("DuplicateIdentifiers")
    ELSE ResultOk(ColumnCommitments(
                    from_columns_with_offset(CommittableColumns(columns), offset),
                    MetadataMapFromColumns(columns)))

\* The methods on &mut self give the value they return and self after the call.
Call(result, self) == [result |-> result, self |-> self]
Unit == <<>>

\* variant: the metadata of the new rows is not merged into that of self
try_append_rows_with_offset_KeepsMetadata(self, columns, offset) ==
    IF RepeatsIdentifier(columns) THEN Call(ResultErr("DuplicateIdentifiers"), self)
    ELSE LET union == MetadataMapTryUnion(self.column_metadata, MetadataMapFromColumns(columns))
             appended == VecTryAppendRowsWithOffset(self.commitments,
                                                    CommittableColumns(columns), offset)
         IN  IF ~IsOk(union) THEN Call(union, self)
             ELSE IF ~IsOk(appended) THEN Call(ResultPanic, self)
             ELSE Call(ResultOk(Unit), ColumnCommitments(appended.value, self.column_metadata))

\* variant: the rows are appended to the commitments before the metadata is compared
try_append_rows_with_offset_AppendsFirst(self, columns, offset) ==
    IF RepeatsIdentifier(columns) THEN Call(ResultErr("DuplicateIdentifiers"), self)
    ELSE LET union == MetadataMapTryUnion(self.column_metadata, MetadataMapFromColumns(columns))
             appended == VecTryAppendRowsWithOffset(self.commitments,
                                                    CommittableColumns(columns), offset)
         IN  IF ~IsOk(appended) /\ IsOk(union)
             THEN Call(ResultPanic, [self EXCEPT !.column_metadata = union.value])
             ELSE IF ~IsOk(union)
             THEN Call(union, IF IsOk(appended)
                              THEN [self EXCEPT !.commitments = appended.value] ELSE self)
             ELSE Call(ResultOk(Unit), ColumnCommitments(appended.value, union.value))

\* ColumnCommitments::try_append_rows_with_offset
try_append_rows_with_offset(self, columns, offset) ==
    IF RepeatsIdentifier(columns) THEN Call(ResultErr("DuplicateIdentifiers"), self)
    ELSE LET union == MetadataMapTryUnion(self.column_metadata, MetadataMapFromColumns(columns))
             appended == VecTryAppendRowsWithOffset(self.commitments,
                                                    CommittableColumns(columns), offset)
         IN  IF ~IsOk(union) THEN Call(union, self)
             ELSE IF ~IsOk(appended)
             THEN Call(ResultPanic, [self EXCEPT !.column_metadata = union.value])
             ELSE Call(ResultOk(Unit), ColumnCommitments(appended.value, union.value))

\* variant: no check for duplicates between the existing and the new columns
try_extend_columns_with_offset_NoExistingCheck(self, columns, offset) ==
    LET new_column_commitments == try_from_columns_with_offset(columns, offset)
    IN  IF ~IsOk(new_column_commitments) THEN Call(new_column_commitments, self)
        ELSE Call(ResultOk(Unit),
                  ColumnCommitments(
                    self.commitments \o new_column_commitments.value.commitments,
                    IndexMapExtend(self.column_metadata,
                                   new_column_commitments.value.column_metadata)))

\* variant: the new columns are put before the existing ones
try_extend_columns_with_offset_Prepends(self, columns, offset) ==
    IF \E i \in DOMAIN columns : IndexMapContainsKey(self.column_metadata, columns[i].identifier)
    THEN Call(ResultErr("DuplicateIdentifiers"), self)
    ELSE LET new_column_commitments == try_from_columns_with_offset(columns, offset)
         IN  IF ~IsOk(new_column_commitments) THEN Call(new_column_commitments, self)
             ELSE Call(ResultOk(Unit),
                       ColumnCommitments(
                         new_column_commitments.value.commitments \o self.commitments,
                         IndexMapExtend(new_column_commitments.value.column_metadata,
                                        self.column_metadata)))

\* ColumnCommitments::try_extend_columns_with_offset
try_extend_columns_with_offset(self, columns, offset) ==
    IF \E i \in DOMAIN columns : IndexMapContainsKey(self.column_metadata, columns[i].identifier)
    THEN Call(ResultErr("DuplicateIdentifiers"), self)
    ELSE LET new_column_commitments == try_from_columns_with_offset(columns, offset)
         IN  IF ~IsOk(new_column_commitments) THEN Call(new_column_commitments, self)
             ELSE Call(ResultOk(Unit),
                       ColumnCommitments(
                         self.commitments \o new_column_commitments.value.commitments,
                         IndexMapExtend(self.column_metadata,
                                        new_column_commitments.value.column_metadata)))

\* variant: the metadata of the operands is not compared
try_add_KeepsMetadata(self, other) ==
    LET commitments == VecTryAdd(self.commitments, other.commitments)
    IN  IF ~IsOk(commitments) THEN ResultPanic
        ELSE ResultOk(ColumnCommitments(commitments.value, self.column_metadata))

\* ColumnCommitments::try_add
try_add(self, other) ==
    LET column_metadata == MetadataMapTryUnion(self.column_metadata, other.column_metadata)
        commitments == VecTryAdd(self.commitments, other.commitments)
    IN  IF ~IsOk(column_metadata) THEN column_metadata
        ELSE IF ~IsOk(commitments) THEN ResultPanic
        ELSE ResultOk(ColumnCommitments(commitments.value, column_metadata.value))

\* variant: the operands must have the same metadata, bounds included
try_sub_EqualMetadata(self, other) ==
    LET column_metadata == MetadataMapTryDifference(self.column_metadata, other.column_metadata)
        commitments == VecTrySub(self.commitments, other.commitments)
    IN  IF ~IsOk(column_metadata) THEN column_metadata
        ELSE IF self.column_metadata # other.column_metadata
        THEN ResultErr("ColumnCommitmentMetadata")
        ELSE IF ~IsOk(commitments) THEN ResultPanic
        ELSE ResultOk(ColumnCommitments(commitments.value, column_metadata.value))
\* variant: the commitments are added
try_sub_Adds(self, other) ==
    LET column_metadata == MetadataMapTryDifference(self.column_metadata, other.column_metadata)
        commitments == VecTryAdd(self.commitments, other.commitments)
    IN  IF ~IsOk(column_metadata) THEN column_metadata
        ELSE IF ~IsOk(commitments) THEN ResultPanic
        ELSE ResultOk(ColumnCommitments(commitments.value, column_metadata.value))

\* ColumnCommitments::try_sub
try_sub(self, other) ==
    LET column_metadata == MetadataMapTryDifference(self.column_metadata, other.column_metadata)
        commitments == VecTrySub(self.commitments, other.commitments)
    IN  IF ~IsOk(column_metadata) THEN column_metadata
        ELSE IF ~IsOk(commitments) THEN ResultPanic
        ELSE ResultOk(ColumnCommitments(commitments.value, column_metadata.value))

\* IntoIterator for ColumnCommitments and for &ColumnCommitments: the entries of
\* the metadata zipped with the commitments, as far as the shorter of them
ZipLen(self) == IF Len(self.column_metadata) <= Len(self.commitments)
                THEN Len(self.column_metadata) ELSE Len(self.commitments)
into_iter(self) ==
    [i \in 1 .. ZipLen(self) |->
        << self.column_metadata[i].identifier, self.column_metadata[i].metadata,
           self.commitments[i] >>]
iter(self) == into_iter(self)

\* variant: the commitments are collected in reverse order
from_iter_Reversed(triples) ==
    ColumnCommitments(
        [i \in DOMAIN triples |-> triples[Len(triples) + 1 - i][3]],
        IndexMapFromIter([i \in DOMAIN triples |-> Entry(triples[i][1], triples[i][2])]))

\* FromIterator for ColumnCommitments: the triples unzipped into an IndexMap and a Vec
from_iter(triples) ==
    ColumnCommitments(
        [i \in DOMAIN triples |-> triples[i][3]],
        IndexMapFromIter([i \in DOMAIN triples |-> Entry(triples[i][1], triples[i][2])]))

\* ------------------------------------------------------------------------
\* A session of calls on one ColumnCommitments instance, from the default
\* (empty) instance: at most MaxCalls calls, each with any list of up to two
\* columns, repeated identifiers included.
\* ------------------------------------------------------------------------

MaxCalls == 2

\* the columns a call may be handed: integers with two different bounds, and text
SampleColumns ==
    { OwnedColumn("BigInt", << 0 >>), OwnedColumn("BigInt", << MaxVal >>),
      OwnedColumn("VarChar", << MaxVal >>) }
IdentifiedColumns == { Column(id, column) : id \in Identifiers, column \in SampleColumns }
ColumnInputs ==
    { <<>> } \cup { << c >> : c \in IdentifiedColumns }
             \cup { << w[1], w[2] >> : w \in IdentifiedColumns \X IdentifiedColumns }

DefaultColumnCommitments == ColumnCommitments(<<>>, <<>>)

\* the tag of a Result: Ok, Panic or the error
Outcome(result) == IF result.tag = "Err" THEN result.error ELSE result.tag

ColumnsInit ==
    /\ OthersIdle
    /\ cm = NoCommit
    /\ run = NoRun
    /\ cc = [pc |-> "ready", calls |-> 0, self |-> DefaultColumnCommitments,
             call |-> "none", columns |-> <<>>, before |-> DefaultColumnCommitments,
             other |-> DefaultColumnCommitments, outcome |-> "none"]

Called(call, columns, other, outcome, self) ==
    cc' = [pc |-> "ready", calls |-> cc.calls + 1, self |-> self, call |-> call,
           columns |-> columns, before |-> cc.self, other |-> other, outcome |-> outcome]

TryFromColumnsWithOffset ==
    /\ cc.pc = "ready" /\ cc.calls < MaxCalls
    /\ \E columns \in ColumnInputs :
          LET r == try_from_columns_with_offset(columns, 0)
          IN  Called("try_from_columns_with_offset", columns, DefaultColumnCommitments,
                     Outcome(r), IF IsOk(r) THEN r.value ELSE cc.self)
    /\ UNCHANGED << fvars, eq, ex, cm, snd, run >>

TryAppendRowsWithOffset ==
    /\ cc.pc = "ready" /\ cc.calls < MaxCalls
    /\ \E columns \in ColumnInputs :
          LET r == try_append_rows_with_offset(cc.self, columns, 0)
          IN  Called("try_append_rows_with_offset", columns, DefaultColumnCommitments,
                     Outcome(r.result), r.self)
    /\ UNCHANGED << fvars, eq, ex, cm, snd, run >>

TryExtendColumnsWithOffset ==
    /\ cc.pc = "ready" /\ cc.calls < MaxCalls
    /\ \E columns \in ColumnInputs :
          LET r == try_extend_columns_with_offset(cc.self, columns, 0)
          IN  Called("try_extend_columns_with_offset", columns, DefaultColumnCommitments,
                     Outcome(r.result), r.self)
    /\ UNCHANGED << fvars, eq, ex, cm, snd, run >>

\* the other operand of try_add and try_sub is an instance built from columns
TryAdd ==
    /\ cc.pc = "ready" /\ cc.calls < MaxCalls
    /\ \E columns \in ColumnInputs :
          /\ IsOk(try_from_columns_with_offset(columns, 0))
          /\ LET other == try_from_columns_with_offset(columns, 0).value
                 r == try_add(cc.self, other)
             IN  Called("try_add", columns, other, Outcome(r),
                        IF IsOk(r) THEN r.value ELSE cc.self)
    /\ UNCHANGED << fvars, eq, ex, cm, snd, run >>

TrySub ==
    /\ cc.pc = "ready" /\ cc.calls < MaxCalls
    /\ \E columns \in ColumnInputs :
          /\ IsOk(try_from_columns_with_offset(columns, 0))
          /\ LET other == try_from_columns_with_offset(columns, 0).value
                 r == try_sub(cc.self, other)
             IN  Called("try_sub", columns, other, Outcome(r),
                        IF IsOk(r) THEN r.value ELSE cc.self)
    /\ UNCHANGED << fvars, eq, ex, cm, snd, run >>

ColumnsNext ==
    \/ TryFromColumnsWithOffset
    \/ TryAppendRowsWithOffset
    \/ TryExtendColumnsWithOffset
    \/ TryAdd
    \/ TrySub

SpecColumns == ColumnsInit /\ [][ColumnsNext]_vars

\* the identifiers of an instance are pairwise distinct, one commitment for each
WellFormed(self) ==
    /\ Len(self.commitments) = Len(self.column_metadata)
    /\ \A i, j \in DOMAIN self.column_metadata :
          self.column_metadata[i].identifier = self.column_metadata[j].identifier => i = j

\* C15: after any sequence of try_from_columns_with_offset,
\* try_extend_columns_with_offset, try_append_rows_with_offset, try_add and
\* try_sub calls, failed ones included, every instance (self before and after
\* the call, the other operand) has pairwise distinct identifiers and as many
\* commitments as identifiers, and no expect() fails; a call whose columns
\* repeat an identifier, or an extension naming an identifier already present,
\* returns DuplicateIdentifiers and leaves self as it was.
C15_NoDuplicateIdentifiers ==
    /\ WellFormed(cc.self) /\ WellFormed(cc.before) /\ WellFormed(cc.other)
    /\ cc.outcome # "Panic"
    /\ cc.call \in { "try_from_columns_with_offset", "try_append_rows_with_offset",
                     "try_extend_columns_with_offset" }
       /\ RepeatsIdentifier(cc.columns)
       => cc.outcome = "DuplicateIdentifiers" /\ cc.self = cc.before
    /\ cc.call = "try_extend_columns_with_offset"
       /\ (\E i \in DOMAIN cc.columns :
              IndexMapContainsKey(cc.before.column_metadata, cc.columns[i].identifier))
       => cc.outcome = "DuplicateIdentifiers" /\ cc.self = cc.before
    /\ cc.outcome = "DuplicateIdentifiers"
       => \/ RepeatsIdentifier(cc.columns)
          \/ /\ cc.call = "try_extend_columns_with_offset"
             /\ \E i \in DOMAIN cc.columns :
                   IndexMapContainsKey(cc.before.column_metadata, cc.columns[i].identifier)

\* an extension of a non-empty instance was refused for an identifier already
\* present, after which the instance still holds its two columns
C15_Witness ==
    /\ cc.call = "try_extend_columns_with_offset"
    /\ cc.outcome = "DuplicateIdentifiers"
    /\ ~RepeatsIdentifier(cc.columns)
    /\ ColumnCommitmentsLen(cc.self) = Cardinality(Identifiers)

\* The two operands of the last call: self as it was, and the other instance
\* (try_add, try_sub) or the columns handed in (try_append_rows_with_offset).
Combining == cc.call \in { "try_add", "try_sub", "try_append_rows_with_offset" }
OperandMetadata ==
    IF cc.call = "try_append_rows_with_offset"
    THEN [i \in DOMAIN cc.columns |->
            Entry(cc.columns[i].identifier, MetadataFromColumn(cc.columns[i].column))]
    ELSE cc.other.column_metadata
DifferInNumColumns == Len(cc.before.column_metadata) # Len(OperandMetadata)
DifferInIdentifierAt(i) == cc.before.column_metadata[i].identifier # OperandMetadata[i].identifier
DifferInTypeAt(i) ==
    cc.before.column_metadata[i].metadata.column_type # OperandMetadata[i].metadata.column_type
CommonPositions == DOMAIN cc.before.column_metadata \cap DOMAIN OperandMetadata
DifferInIdentifier == \E i \in CommonPositions : DifferInIdentifierAt(i)
\* the column type recorded for the same identifier differs
DifferInType ==
    \E i \in DOMAIN cc.before.column_metadata, j \in DOMAIN OperandMetadata :
       /\ cc.before.column_metadata[i].identifier = OperandMetadata[j].identifier
       /\ cc.before.column_metadata[i].metadata.column_type
             # OperandMetadata[j].metadata.column_type
Mismatched == DifferInNumColumns \/ DifferInIdentifier \/ DifferInType
MismatchErrors == { "NumColumns", "Identifier", "ColumnCommitmentMetadata" }

\* C16 as stated: try_add, try_sub and try_append_rows_with_offset return a
\* ColumnCommitmentsMismatch error and produce no combined instance whenever the
\* operands differ in number of columns, in the identifier at some position, or
\* in the column type recorded for the same identifier.
C16_AnyMismatchIsMismatchError ==
    Combining /\ Mismatched => cc.outcome \in MismatchErrors /\ cc.self = cc.before

\* C16: whenever the operands of try_add, try_sub or
\* try_append_rows_with_offset differ in number of columns, in the identifier at
\* some position or in the column type of an identifier, the call fails and
\* self is left as it was. The error is DuplicateIdentifiers when the columns of
\* try_append_rows_with_offset repeat an identifier, and otherwise a
\* ColumnCommitmentsMismatch: NumColumns for a different number of columns,
\* else the one of Identifier and ColumnCommitmentMetadata that the first
\* differing position calls for.
C16_MismatchRejected ==
    Combining /\ Mismatched =>
       /\ cc.self = cc.before
       /\ IF cc.call = "try_append_rows_with_offset" /\ RepeatsIdentifier(cc.columns)
          THEN cc.outcome = "DuplicateIdentifiers"
          ELSE /\ cc.outcome \in MismatchErrors
               /\ DifferInNumColumns <=> cc.outcome = "NumColumns"
               /\ ~DifferInNumColumns =>
                     LET position == MinOf({ i \in CommonPositions :
                                            DifferInIdentifierAt(i) \/ DifferInTypeAt(i) })
                     IN  cc.outcome = IF DifferInIdentifierAt(position)
                                      THEN "Identifier" ELSE "ColumnCommitmentMetadata"

\* rows of another column type were appended to a column, and refused
C16_Witness ==
    /\ cc.call = "try_append_rows_with_offset"
    /\ ~DifferInNumColumns /\ ~DifferInIdentifier /\ DifferInType
    /\ cc.outcome = "ColumnCommitmentMetadata"
    /\ ColumnCommitmentsLen(cc.before) = Cardinality(Identifiers)

\* the bounds recorded for some identifier differ between the operands
DifferInBounds ==
    \E i \in CommonPositions :
       cc.before.column_metadata[i].metadata.bounds # OperandMetadata[i].metadata.bounds
SameShape ==
    /\ ~DifferInNumColumns
    /\ \A i \in CommonPositions : ~DifferInIdentifierAt(i) /\ ~DifferInTypeAt(i)

\* C17 as stated: try_add and try_sub succeed only when the operands have the
\* same identifiers and the same metadata, type and bounds, for every
\* identifier; if the bounds of some identifier differ the call fails.
C17_SucceedOnlyWithEqualBounds ==
    cc.call \in { "try_add", "try_sub" } /\ cc.outcome = "Ok"
       => cc.before.column_metadata = cc.other.column_metadata

\* C17: try_add and try_sub succeed exactly when the operands have the same
\* number of columns, the same identifier at every position and the same column
\* type for it; the bounds are not compared. The result has the identifiers and
\* types of the operands, and after try_add its bounds cover those of both.
C17_SucceedIffSameShape ==
    cc.call \in { "try_add", "try_sub" } =>
       /\ cc.outcome = "Ok" <=> SameShape
       /\ cc.outcome = "Ok" =>
             /\ Keys(cc.self.column_metadata) = Keys(cc.before.column_metadata)
             /\ \A i \in CommonPositions :
                   /\ cc.self.column_metadata[i].metadata.column_type
                         = cc.before.column_metadata[i].metadata.column_type
                   /\ cc.call = "try_add" =>
                         MetadataTryUnion(cc.before.column_metadata[i].metadata,
                                          cc.other.column_metadata[i].metadata)
                            = ResultOk(cc.self.column_metadata[i].metadata)

\* two instances whose column has different bounds were added, and the sum
\* has the bounds that cover both
C17_Witness ==
    /\ cc.call = "try_add" /\ cc.outcome = "Ok"
    /\ DifferInBounds
    /\ \E i \in CommonPositions :
          cc.self.column_metadata[i].metadata.bounds
             = ColumnBoundsBigInt(BoundsSharp(0, MaxVal))

\* ------------------------------------------------------------------------
\* A table split at row k: its rows committed as a whole, as the rows before k
\* and as the rows from k on, and the parts then combined.
\* ------------------------------------------------------------------------

\* tables of one or two columns of equal length, under distinct identifiers
SplitHeaders == { << "a" >>, << "a", "b" >>, << "b", "a" >> }
SplitTables ==
    UNION { { [i \in DOMAIN header |->
                 Column(header[i], OwnedColumn(types[i], data[i]))] :
              types \in [DOMAIN header -> ColumnTypes],
              data \in [DOMAIN header -> [1 .. n -> 0 .. MaxVal]] } :
            header \in SplitHeaders, n \in 0 .. MaxRows }
TableLen(t) == Len(t[1].column.data)

\* rows [from, to) of a table
Rows(t, from, to) ==
    [i \in DOMAIN t |->
        Column(t[i].identifier,
               OwnedColumn(t[i].column.column_type, SubSeq(t[i].column.data, from + 1, to)))]

SplitInit ==
    /\ OthersIdle
    /\ cm = NoCommit
    /\ run = NoRun
    /\ \E t \in SplitTables : \E k \in 0 .. TableLen(t) :
          cc = [pc |-> "split", table |-> t, k |-> k,
                whole |-> DefaultColumnCommitments, head |-> DefaultColumnCommitments,
                tail |-> DefaultColumnCommitments, outcome |-> "none",
                combined |-> DefaultColumnCommitments]

\* all rows, at offset 0
CommitWhole ==
    /\ cc.pc = "split"
    /\ cc' = [cc EXCEPT !.pc = "whole",
                        !.whole = try_from_columns_with_offset(cc.table, 0).value]
    /\ UNCHANGED << fvars, eq, ex, cm, snd, run >>

\* rows [0, k), at offset 0
CommitHead ==
    /\ cc.pc = "whole"
    /\ cc' = [cc EXCEPT !.pc = "head",
                        !.head = try_from_columns_with_offset(Rows(cc.table, 0, cc.k), 0).value]
    /\ UNCHANGED << fvars, eq, ex, cm, snd, run >>

\* rows [k, n), at offset k
CommitTail ==
    /\ cc.pc = "head"
    /\ cc' = [cc EXCEPT !.pc = "parts",
                        !.tail = try_from_columns_with_offset(
                                    Rows(cc.table, cc.k, TableLen(cc.table)), cc.k).value]
    /\ UNCHANGED << fvars, eq, ex, cm, snd, run >>

AppendTail ==
    /\ cc.pc = "parts"
    /\ LET r == try_append_rows_with_offset(cc.head,
                                            Rows(cc.table, cc.k, TableLen(cc.table)), cc.k)
       IN  cc' = [cc EXCEPT !.pc = "appended", !.outcome = Outcome(r.result),
                            !.combined = r.self]
    /\ UNCHANGED << fvars, eq, ex, cm, snd, run >>

AddTail ==
    /\ cc.pc = "parts"
    /\ LET r == try_add(cc.head, cc.tail)
       IN  cc' = [cc EXCEPT !.pc = "added", !.outcome = Outcome(r),
                            !.combined = IF IsOk(r) THEN r.value ELSE DefaultColumnCommitments]
    /\ UNCHANGED << fvars, eq, ex, cm, snd, run >>

SubHead ==
    /\ cc.pc = "parts"
    /\ LET r == try_sub(cc.whole, cc.head)
       IN  cc' = [cc EXCEPT !.pc = "subtracted", !.outcome = Outcome(r),
                            !.combined = IF IsOk(r) THEN r.value ELSE DefaultColumnCommitments]
    /\ UNCHANGED << fvars, eq, ex, cm, snd, run >>

SplitNext ==
    \/ CommitWhole
    \/ CommitHead
    \/ CommitTail
    \/ AppendTail
    \/ AddTail
    \/ SubHead

SpecSplit == SplitInit /\ [][SplitNext]_vars

\* C18: for every table split at row k, the commitments of rows [0, k) at
\* offset 0, after try_append_rows_with_offset with rows [k, n) and offset k, or
\* after try_add with the commitments of rows [k, n) built at offset k, are
\* equal, commitments and metadata with its bounds, to the commitments of all n
\* rows at offset 0.
C18_OffsetAdditivity ==
    cc.pc \in { "appended", "added" } => cc.outcome = "Ok" /\ cc.combined = cc.whole

\* a table of two columns was split inside, the bounds of the two parts differ
\* from those of the whole, and the rows from k on were appended
C18_Witness ==
    /\ cc.pc = "appended"
    /\ 0 < cc.k /\ cc.k < TableLen(cc.table)
    /\ Len(cc.table) = Cardinality(Identifiers)
    /\ \E i \in DOMAIN cc.table :
          /\ cc.head.column_metadata[i].metadata # cc.whole.column_metadata[i].metadata
          /\ cc.tail.column_metadata[i].metadata # cc.whole.column_metadata[i].metadata
          /\ cc.whole.commitments[i] # G1Identity
          /\ cc.tail.commitments[i] # RistrettoCommitment(cc.table[i].column.data, 0)

\* C19: for every table split at row k, try_sub of the commitments of rows
\* [0, k) from those of all rows, both at offset 0, succeeds with the
\* commitments of rows [k, n) committed at offset k, under the same identifiers
\* in the same order and with the same column types.
C19_SubUndoesAdd ==
    cc.pc = "subtracted" =>
       /\ cc.outcome = "Ok"
       /\ cc.combined.commitments = cc.tail.commitments
       /\ Keys(cc.combined.column_metadata) = [i \in DOMAIN cc.table |-> cc.table[i].identifier]
       /\ \A i \in DOMAIN cc.table :
             cc.combined.column_metadata[i].metadata.column_type
                = cc.table[i].column.column_type

\* the rows before k of a table split inside were subtracted, and they had a
\* commitment other than the identity
C19_Witness ==
    /\ cc.pc = "subtracted"
    /\ 0 < cc.k /\ cc.k < TableLen(cc.table)
    /\ Len(cc.table) = Cardinality(Identifiers)
    /\ \A i \in DOMAIN cc.table :
          /\ cc.head.commitments[i] # G1Identity
          /\ cc.combined.commitments[i] # G1Identity

\* ------------------------------------------------------------------------
\* An instance collected from (identifier, metadata, commitment) triples, then
\* iterated, looked up by identifier, and collected again from its own triples.
\* ------------------------------------------------------------------------

SampleCommitments == { G1Identity, G1Generator }
Triples ==
    { << id, MetadataFromColumn(column), commitment >> :
         id \in Identifiers, column \in SampleColumns, commitment \in SampleCommitments }
TripleInputs ==
    { <<>> } \cup { << t >> : t \in Triples }
             \cup { << w[1], w[2] >> : w \in Triples \X Triples }

IterInit ==
    /\ OthersIdle
    /\ cm = NoCommit
    /\ run = NoRun
    /\ \E triples \in TripleInputs :
          cc = [pc |-> "triples", triples |-> triples, built |-> DefaultColumnCommitments,
                yielded |-> <<>>, identifier |-> "none", found |-> None,
                rebuilt |-> DefaultColumnCommitments]

FromIter ==
    /\ cc.pc = "triples"
    /\ cc' = [cc EXCEPT !.pc = "built", !.built = from_iter(cc.triples)]
    /\ UNCHANGED << fvars, eq, ex, cm, snd, run >>

Iter ==
    /\ cc.pc = "built"
    /\ cc' = [cc EXCEPT !.pc = "iterated", !.yielded = iter(cc.built)]
    /\ UNCHANGED << fvars, eq, ex, cm, snd, run >>

GetCommitment ==
    /\ cc.pc = "built"
    /\ \E identifier \in Identifiers :
          cc' = [cc EXCEPT !.pc = "looked up", !.identifier = identifier,
                           !.found = get_commitment(cc.built, identifier)]
    /\ UNCHANGED << fvars, eq, ex, cm, snd, run >>

FromIterIntoIter ==
    /\ cc.pc = "built"
    /\ cc' = [cc EXCEPT !.pc = "rebuilt", !.rebuilt = from_iter(into_iter(cc.built))]
    /\ UNCHANGED << fvars, eq, ex, cm, snd, run >>

IterNext ==
    \/ FromIter
    \/ Iter
    \/ GetCommitment
    \/ FromIterIntoIter

SpecIter == IterInit /\ [][IterNext]_vars

RepeatsTripleIdentifier(triples) ==
    \E i, j \in DOMAIN triples : i < j /\ triples[i][1] = triples[j][1]

TableRef == "t"
Returned(result) == [abort |-> FALSE, result |-> result]
Aborted(message) == [abort |-> TRUE, message |-> message]

\* IndexMap::get
MapGet(map, key) == IF key \in DOMAIN map THEN Some(map[key]) ELSE None

\* the where clause of the plan: the equality of the sessions above, or a bare
\* reference to the first column, whose type is BigInt
WhereClauses == {"equals", "column"}
WhereFirstRoundEvaluate(kind, t) ==
    IF kind = "equals"
    THEN [type |-> "Boolean", values |-> EqualsFirstRoundEvaluate(where_clause, t)]
    ELSE [type |-> "BigInt", values |-> ColumnRefEvaluate(t, 1)]

\* Column::as_boolean
as_boolean(column) == IF column.type = "Boolean" THEN Some(column.values) ELSE None

\* Table::try_from_iter_with_options: the columns must have the declared number of rows
TableFromIterFails(res) == \E k \in DOMAIN res.cols : Len(res.cols[k]) # res.num_rows

\* variant: a missing table is reported as an error of the call
first_round_evaluate_TableErr(kind, builder, table_map) ==
    LET found == MapGet(table_map, TableRef)
    IN  IF found = None THEN Returned(Err(builder)) ELSE
    LET t == found[1]
        selection == as_boolean(WhereFirstRoundEvaluate(kind, t))
    IN  IF selection = None THEN Aborted("selection is not boolean") ELSE
    LET r == FilterFirstRoundEvaluate(builder, t)
    IN  IF TableFromIterFails(r.res) THEN Aborted("Failed to create table from iterator")
        ELSE Returned(Ok(r.res, r.builder))

first_round_evaluate(kind, builder, table_map) ==
    LET found == MapGet(table_map, TableRef)
    IN  IF found = None THEN Aborted("Table not found") ELSE
    LET t == found[1]
        selection == as_boolean(WhereFirstRoundEvaluate(kind, t))
    IN  IF selection = None THEN Aborted("selection is not boolean") ELSE
    LET r == FilterFirstRoundEvaluate(builder, t)
    IN  IF TableFromIterFails(r.res) THEN Aborted("Failed to create table from iterator")
        ELSE Returned(Ok(r.res, r.builder))

final_round_evaluate(kind, builder, table_map, chs) ==
    LET found == MapGet(table_map, TableRef)
    IN  IF found = None THEN Aborted("Table not found") ELSE
    LET t == found[1]
        selection == as_boolean(WhereFirstRoundEvaluate(kind, t))
    IN  IF selection = None THEN Aborted("selection is not boolean") ELSE
    LET r == FilterFinalRoundEvaluate(builder, t, chs)
    IN  IF TableFromIterFails(r.res) THEN Aborted("Failed to create table from iterator")
        ELSE Returned(Ok(r.res, r.builder))

\* a column expression looks its column up in the table's accessor
ColumnsFound(accessor) ==
    /\ where_clause.lhs \in DOMAIN accessor
    /\ \A k \in DOMAIN aliased_results : aliased_results[k].expr \in DOMAIN accessor

verifier_evaluate(builder, accessor, chi_eval_map) ==
    LET chi == MapGet(chi_eval_map, TableRef)
    IN  IF chi = None THEN Aborted("Chi eval not found") ELSE
    LET input_chi_eval == chi[1]
        found == MapGet(accessor, TableRef)
        table_accessor == IF found = None THEN <<>> ELSE found[1]
    IN  IF ~ColumnsFound(table_accessor) THEN Returned(Err(builder)) ELSE
    LET r == FilterVerifierEvaluate(builder, table_accessor, input_chi_eval)
    IN  IF r.ok /\ Len(r.val.column_evals) # Len(aliased_results)
        THEN Aborted("assertion failed") ELSE Returned(r)

\* a map with or without the plan's table
MapWith(present, value) == [key \in (IF present THEN {TableRef} ELSE {}) |-> value]

ChallengeSamples == { << 1, 2 >>, << 3, 0 >> }

CallOutcome(call) ==
    IF call.abort THEN "Abort" ELSE IF call.result.ok THEN "Ok" ELSE "Err"

FallibleInit ==
    /\ OthersIdle
    /\ cm = NoCommit
    /\ cc = NoColumns
    /\ \E t \in Tables, chs \in ChallengeSamples :
          run = [pc |-> "start", table |-> t, challenges |-> chs, call |-> "none",
                 has_table |-> TRUE, has_chi |-> TRUE, has_accessor |-> TRUE,
                 where |-> "equals", removed |-> "none",
                 accessor |-> MapWith(FALSE, << >>), chi_eval_map |-> MapWith(FALSE, 0),
                 outcome |-> "none", message |-> "none",
                 after |-> NewFirstRoundBuilder, val |-> 0]

FallibleCalled(name, has_table, has_chi, has_accessor, kind, rm, accessor, chi_eval_map, call) ==
    /\ run' = [run EXCEPT !.pc = "called", !.call = name, !.has_table = has_table,
                          !.has_chi = has_chi, !.has_accessor = has_accessor,
                          !.where = kind, !.removed = rm,
                          !.accessor = accessor, !.chi_eval_map = chi_eval_map,
                          !.outcome = CallOutcome(call),
                          !.message = IF call.abort THEN call.message ELSE "none",
                          !.after = IF call.abort THEN @ ELSE call.result.b,
                          !.val = IF call.abort THEN @ ELSE call.result.val]
    /\ UNCHANGED << fvars, eq, ex, cm, snd, cc >>

CallFirstRound ==
    /\ run.pc = "start"
    /\ \E has_table \in BOOLEAN, kind \in WhereClauses :
          FallibleCalled("first_round_evaluate", has_table, TRUE, TRUE, kind, "none",
              run.accessor, run.chi_eval_map,
              first_round_evaluate(kind, NewFirstRoundBuilder, MapWith(has_table, run.table)))

CallFinalRound ==
    /\ run.pc = "start"
    /\ \E has_table \in BOOLEAN, kind \in WhereClauses :
          FallibleCalled("final_round_evaluate", has_table, TRUE, TRUE, kind, "none",
              run.accessor, run.chi_eval_map,
              final_round_evaluate(kind, NewFinalRoundBuilder, MapWith(has_table, run.table),
                                   run.challenges))

\* the verifier is handed the proof of the honest prover, possibly lacking an item
CallVerifier ==
    /\ run.pc = "start"
    /\ \E has_chi \in BOOLEAN, has_accessor \in BOOLEAN,
          row \in 1 .. (MaxRows + 1), rm \in Removals :
          LET fst == FilterFirstRoundEvaluate(NewFirstRoundBuilder, run.table).builder
              fin == FilterFinalRoundEvaluate(NewFinalRoundBuilder, run.table,
                                              run.challenges).builder
              inputs == VerifierInputs(run.table, row, rm)
          IN  FallibleCalled("verifier_evaluate", TRUE, has_chi, has_accessor, "equals", rm,
                  MapWith(has_accessor, inputs.accessor),
                  MapWith(has_chi, inputs.input_chi_eval),
                  verifier_evaluate(ProofBuilder(fin, fst, run.challenges, row, rm),
                                    MapWith(has_accessor, inputs.accessor),
                                    MapWith(has_chi, inputs.input_chi_eval)))

FallibleNext == CallFirstRound \/ CallFinalRound \/ CallVerifier

SpecFallible == FallibleInit /\ [][FallibleNext]_vars

\* C21 (as stated): every failure of first_round_evaluate, final_round_evaluate and
\* verifier_evaluate is reported as an error value and never as an abort, also when the
\* plan's table is absent from the table map, when its chi evaluation is absent from the
\* chi evaluation map, and when the where clause evaluates to a column that is not boolean.
C21_NeverAborts == run.pc = "called" => run.outcome # "Abort"

\* C21 (what the code does): a call aborts exactly when the table map lacks the plan's
\* table, the where clause's column is not boolean, or the chi evaluation map lacks the
\* table; an accessor without the table and a proof lacking an item are reported as Err.
C21_AbortsExactlyOnMissingInput ==
    run.pc = "called" =>
        /\ run.outcome = "Abort" <=>
              \/ ~run.has_table
              \/ run.where = "column"
              \/ ~run.has_chi
        /\ run.outcome = "Abort" /\ ~run.has_table => run.message = "Table not found"
        /\ run.outcome = "Abort" /\ run.has_table /\ run.has_chi =>
              run.message = "selection is not boolean"
        /\ run.outcome = "Abort" /\ ~run.has_chi => run.message = "Chi eval not found"
        /\ run.has_table /\ run.has_chi /\ run.where = "equals"
              /\ (~run.has_accessor \/ run.removed # "none") => run.outcome = "Err"

C21_Witness ==
    /\ run.pc = "called"
    /\ run.call = "first_round_evaluate"
    /\ ~run.has_table
    /\ run.outcome = "Abort"

\* the evaluations the verifier folds: those of the plan's result expressions
ResultEvals(accessor) ==
    [k \in DOMAIN aliased_results |->
        ColumnRefVerifierEvaluate(accessor, aliased_results[k].expr)]

\* C24: first_round_evaluate requests exactly 2 post-result challenges and declares exactly
\* one chi length, the output row count m; final_round_evaluate consumes exactly 2
\* challenges, alpha then beta; verifier_evaluate consumes exactly 2 challenges, alpha then
\* beta, and exactly one chi evaluation, which it uses as chi_m, while chi_n is the entry of
\* the chi evaluation map.
C24_ChallengeAndChiBookkeeping ==
    run.pc = "called" /\ run.outcome = "Ok" =>
        /\ run.call = "first_round_evaluate" =>
              /\ run.after.num_post_result_challenges = 2
              /\ run.after.chi_evaluation_lengths =
                    << CountTrue(EqualsFirstRoundEvaluate(where_clause, run.table)) >>
              /\ run.val.num_rows = run.after.chi_evaluation_lengths[1]
        /\ run.call = "final_round_evaluate" =>
              /\ run.after.challenges_consumed = 2
              /\ run.after.challenge_roles = << "alpha", "beta" >>
        /\ run.call = "verifier_evaluate" =>
              LET b == run.after
                  alpha == b.post_result_challenges[1]
                  beta == b.post_result_challenges[2]
                  chi_n == run.chi_eval_map[TableRef]
                  chi_m == b.chi_evaluations[1]
                  c_star_eval == b.mle_evaluations[5].val
                  d_star_eval == b.mle_evaluations[6].val
                  c_fold_eval == FMul(alpha, fold_vals(beta, ResultEvals(run.accessor[TableRef])))
                  d_fold_eval == FMul(alpha, fold_vals(beta, run.val.column_evals))
              IN  /\ b.consumed_challenges = 2
                  /\ b.bound_challenges = << "alpha", "beta" >>
                  /\ b.consumed_chi = 1
                  /\ run.val.chi_eval = chi_m
                  /\ b.produced[4].eval = CStarEval(c_star_eval, c_fold_eval, chi_n)
                  /\ b.produced[5].eval = DStarEval(d_star_eval, d_fold_eval, chi_m)
                  /\ b.produced[6].eval = DFoldEval(d_fold_eval, chi_m)

\* a verification at a row inside the input table and past the end of the output table,
\* where chi_n and chi_m differ
C24_Witness ==
    /\ run.pc = "called"
    /\ run.call = "verifier_evaluate"
    /\ run.outcome = "Ok"
    /\ run.chi_eval_map[TableRef] = 1
    /\ run.val.chi_eval = 0
    /\ run.after.consumed_chi = 1

(***************************************************************************)
(* EqualsExpr::try_new: the analysis of an equality before any proof.      *)
(* The operands are expressions with a data type: column references,       *)
(* literals, and equalities built before.                                  *)
(***************************************************************************)
DataTypes == {"Boolean", "Int", "BigInt", "VarChar"}

\* Display of ColumnType, used by to_string()
ColumnTypeToString(data_type) ==
    CASE data_type = "Boolean" -> "BOOLEAN"
      [] data_type = "Int" -> "INT"
      [] data_type = "BigInt" -> "BIGINT"
      [] data_type = "VarChar" -> "VARCHAR"

is_numeric(data_type) == data_type \in {"Int", "BigInt"}

\* two types can be compared for equality when they are the same or both numeric
try_equals_types(lhs_type, rhs_type) ==
    IF lhs_type = rhs_type \/ (is_numeric(lhs_type) /\ is_numeric(rhs_type))
    THEN ResultOk(Unit)
    ELSE ResultErr("BinaryOperationInvalidColumnType")

DynColumn(name, data_type) == [node |-> "Column", name |-> name, type |-> data_type]
DynLiteral(data_type) == [node |-> "Literal", type |-> data_type]
EqualsExpr(lhs, rhs) == [node |-> "Equals", lhs |-> lhs, rhs |-> rhs]

\* DynProofExpr::data_type; that of an EqualsExpr is Boolean
data_type(expr) == IF expr.node = "Equals" THEN "Boolean" ELSE expr.type

\* variant: the error names the operand types in the opposite order
try_new_SwappedNames(lhs, rhs) ==
    LET left_datatype == data_type(lhs)
        right_datatype == data_type(rhs)
    IN  IF IsOk(try_equals_types(left_datatype, right_datatype))
        THEN ResultOk(EqualsExpr(lhs, rhs))
        ELSE ResultErr([error |-> "DataTypeMismatch",
                        left_type |-> ColumnTypeToString(right_datatype),
                        right_type |-> ColumnTypeToString(left_datatype)])

try_new(lhs, rhs) ==
    LET left_datatype == data_type(lhs)
        right_datatype == data_type(rhs)
    IN  IF IsOk(try_equals_types(left_datatype, right_datatype))
        THEN ResultOk(EqualsExpr(lhs, rhs))
        ELSE ResultErr([error |-> "DataTypeMismatch",
                        left_type |-> ColumnTypeToString(left_datatype),
                        right_type |-> ColumnTypeToString(right_datatype)])

MaxNesting == 1
Leaves == { DynColumn(name, t) : name \in {"a", "b"}, t \in DataTypes }
              \cup { DynLiteral(t) : t \in DataTypes }

AnalyzeInit ==
    /\ OthersIdle
    /\ cm = NoCommit
    /\ cc = NoColumns
    /\ run = [pc |-> "start", nesting |-> 0]

Analyzed(lhs, rhs, nesting) ==
    /\ run' = [pc |-> "analyzed", nesting |-> nesting, lhs |-> lhs, rhs |-> rhs,
               result |-> try_new(lhs, rhs)]
    /\ UNCHANGED << fvars, eq, ex, cm, snd, cc >>

TryNewOfLeaves ==
    /\ run.pc = "start"
    /\ \E lhs \in Leaves, rhs \in Leaves : Analyzed(lhs, rhs, 0)

\* an equality that was built is an operand of the next one
TryNewOfEquals ==
    /\ run.pc = "analyzed"
    /\ IsOk(run.result)
    /\ run.nesting < MaxNesting
    /\ \E leaf \in Leaves :
          \/ Analyzed(run.result.value, leaf, run.nesting + 1)
          \/ Analyzed(leaf, run.result.value, run.nesting + 1)

AnalyzeNext == TryNewOfLeaves \/ TryNewOfEquals

SpecAnalyze == AnalyzeInit /\ [][AnalyzeNext]_vars

\* C22: try_new(lhs, rhs) returns Err(DataTypeMismatch) carrying the type names of the
\* left and of the right operand exactly when try_equals_types rejects their data types;
\* otherwise it returns an EqualsExpr holding lhs and rhs unchanged whose data type is Boolean.
C22_TryNewChecksTypes ==
    run.pc = "analyzed" =>
        LET rejected == ~IsOk(try_equals_types(data_type(run.lhs), data_type(run.rhs)))
        IN  /\ rejected <=> ~IsOk(run.result)
            /\ rejected =>
                  /\ run.result.error.error = "DataTypeMismatch"
                  /\ run.result.error.left_type = ColumnTypeToString(data_type(run.lhs))
                  /\ run.result.error.right_type = ColumnTypeToString(data_type(run.rhs))
            /\ ~rejected =>
                  /\ run.result.value.lhs = run.lhs
                  /\ run.result.value.rhs = run.rhs
                  /\ data_type(run.result.value) = "Boolean"

\* an equality compared with a column that is not boolean is rejected
C22_Witness ==
    /\ run.pc = "analyzed"
    /\ run.lhs.node = "Equals"
    /\ data_type(run.rhs) = "VarChar"
    /\ ~IsOk(run.result)
    /\ run.result.error.left_type = "BOOLEAN"
    /\ run.result.error.right_type = "VARCHAR"

(***************************************************************************)
(* Two runs of FilterExec's verifier_evaluate on the same inputs.  The     *)
(* builder is handed over by mutable reference and a run moves its         *)
(* cursors; the same inputs means a builder over the same proof with its   *)
(* cursors at the start.                                                   *)
(***************************************************************************)
\* variant: the next run goes on with the builder the previous run left
BuilderForRun_Reused(proof, previous) == previous

BuilderForRun(proof, previous) ==
    NewVerificationBuilder(proof.mle_evaluations, proof.post_result_challenges,
                           proof.chi_evaluations)

\* what a run leaves to compare: what it consumed of each list and in which roles,
\* the subpolynomial evaluations it produced, and what it returned
RunTrace(call) ==
    IF call.abort THEN [outcome |-> "Abort", message |-> call.message]
    ELSE [outcome |-> CallOutcome(call),
          consumed_mle |-> call.result.b.consumed_mle,
          bound |-> call.result.b.bound,
          consumed_challenges |-> call.result.b.consumed_challenges,
          bound_challenges |-> call.result.b.bound_challenges,
          consumed_chi |-> call.result.b.consumed_chi,
          produced |-> call.result.b.produced,
          returned |-> call.result.val]

RerunInit ==
    /\ OthersIdle
    /\ cm = NoCommit
    /\ cc = NoColumns
    /\ \E t \in Tables, chs \in ChallengeSamples, row \in 1 .. (MaxRows + 1),
          rm \in Removals, has_accessor \in BOOLEAN :
          LET fst == FilterFirstRoundEvaluate(NewFirstRoundBuilder, t).builder
              fin == FilterFinalRoundEvaluate(NewFinalRoundBuilder, t, chs).builder
              inputs == VerifierInputs(t, row, rm)
              proof == ProofBuilder(fin, fst, chs, row, rm)
          IN  run = [pc |-> "start", removed |-> rm,
                     proof |-> proof,
                     accessor |-> MapWith(has_accessor, inputs.accessor),
                     chi_eval_map |-> MapWith(TRUE, inputs.input_chi_eval),
                     builder |-> proof,
                     traces |-> << >>]

VerifierRun(from, to) ==
    /\ run.pc = from
    /\ LET builder == BuilderForRun(run.proof, run.builder)
           call == verifier_evaluate(builder, run.accessor, run.chi_eval_map)
       IN  run' = [run EXCEPT !.pc = to,
                              !.builder = IF call.abort THEN builder ELSE call.result.b,
                              !.traces = Append(@, RunTrace(call))]
    /\ UNCHANGED << fvars, eq, ex, cm, snd, cc >>

VerifyOnce == VerifierRun("start", "once")
VerifyAgain == VerifierRun("once", "twice")

RerunNext == VerifyOnce \/ VerifyAgain

SpecRerun == RerunInit /\ [][RerunNext]_vars

MontR == 8
MaxInt == 7
SignedInts == (0 - MaxInt - 1) .. MaxInt

ToMont(x) == (x * MontR) % P
\* the value a stored form stands for: the x in 0 .. P-1 with ToMont(x) = m
FromMont(m) == CHOOSE x \in 0 .. (P - 1) : ToMont(x) = m

\* variant: the sum is not reduced
MontAdd_Unreduced(m1, m2) == m1 + m2

\* Add for MontScalar: the sum of the stored forms, less P when it reaches P
MontAdd(m1, m2) == IF m1 + m2 >= P THEN m1 + m2 - P ELSE m1 + m2

\* Neg for MontScalar
MontNeg(m) == IF m = 0 THEN 0 ELSE P - m

\* From<u64>, and From<[u64; 4]> for a value below 2^64
from_u64(a) == ToMont(a % P)

\* variant: the sign of a negative integer is dropped
from_i64_Abs(a) == IF a < 0 THEN from_u64(0 - a) ELSE from_u64(a)

\* From<i64>: the negation, in the field, of the magnitude of a negative integer
from_i64(a) == IF a < 0 THEN MontNeg(from_u64(0 - a)) ELSE from_u64(a)

ScalarInit ==
    /\ OthersIdle
    /\ cm = NoCommit
    /\ cc = NoColumns
    /\ \E a \in SignedInts, b \in SignedInts :
          run = [pc |-> "start", a |-> a, b |-> b, test |-> "none",
                 left |-> 0, right |-> 0]

ScalarTested(test, left, right) ==
    /\ run.pc = "start"
    /\ run' = [run EXCEPT !.pc = "tested", !.test = test, !.left = left, !.right = right]
    /\ UNCHANGED << fvars, eq, ex, cm, snd, cc >>

\* test_mod: x = from(P - 1), xp1 = x + one, compared with zero
TestMod == ScalarTested("mod", MontAdd(from_u64(P - 1), from_u64(1)), from_u64(0))

\* test_dalek_interop_m1: mxp = -from(a), compared with from(-a)
TestNeg ==
    /\ run.a # 0 - MaxInt - 1
    /\ ScalarTested("neg", MontNeg(from_i64(run.a)), from_i64(0 - run.a))

\* test_add: from(a) + from(b), compared with from(a + b); a + b is within the integers
TestAdd ==
    /\ run.a + run.b \in SignedInts
    /\ ScalarTested("add", MontAdd(from_i64(run.a), from_i64(run.b)),
                    from_i64(run.a + run.b))

\* the same for the unsigned integers from takes
TestAddUnsigned ==
    /\ run.a >= 0 /\ run.b >= 0
    /\ ScalarTested("add_u64", MontAdd(from_u64(2 * run.a), from_u64(2 * run.b + 1)),
                    from_u64(2 * run.a + 2 * run.b + 1))

ScalarNext == TestMod \/ TestNeg \/ TestAdd \/ TestAddUnsigned

SpecScalar == ScalarInit /\ [][ScalarNext]_vars

EvalSamples == {1, 3}

\* the evaluations a verifier may be handed
Evaluations ==
    [lhs_pseudo_inv : EvalSamples, selection : EvalSamples, d : [1 .. 2 -> EvalSamples],
     c_star : EvalSamples, d_star : EvalSamples, accessor : [1 .. 2 -> EvalSamples],
     chi_n : EvalSamples, chi_m : EvalSamples, alpha : EvalSamples, beta : EvalSamples]

\* the evaluation that stands for each column the prover's terms name
EvaluationOf(name, e) ==
    CASE name = "lhs" ->
            FSub(ColumnRefVerifierEvaluate(e.accessor, where_clause.lhs),
                 LiteralVerifierEvaluate(e.chi_n, where_clause.rhs))
      [] name = "lhs_pseudo_inv" -> e.lhs_pseudo_inv
      [] name = "selection" -> e.selection
      [] name = "selection_not" -> FSub(e.chi_n, e.selection)
      [] name = "s" -> e.selection
      [] name = "c_star" -> e.c_star
      [] name = "d_star" -> e.d_star
      [] name = "c_fold" -> FMul(e.alpha, fold_vals(e.beta, ResultEvals(e.accessor)))
      [] name = "d_fold" -> FMul(e.alpha, fold_vals(e.beta, e.d))
      [] name = "chi_n" -> e.chi_n
      [] name = "chi_m" -> e.chi_m

RECURSIVE ProductOfEvaluations(_, _)
ProductOfEvaluations(factors, e) ==
    IF factors = <<>> THEN 1
    ELSE FMul(EvaluationOf(Head(factors).name, e), ProductOfEvaluations(Tail(factors), e))

\* a subpolynomial's weighted sum of products, each column replaced by its evaluation
RECURSIVE TermsOfEvaluations(_, _)
TermsOfEvaluations(terms, e) ==
    IF terms = <<>> THEN 0
    ELSE FAdd(FMul(Head(terms).coef, ProductOfEvaluations(Head(terms).factors, e)),
              TermsOfEvaluations(Tail(terms), e))

\* the largest number of factors of a term
MaxFactors(terms) ==
    CHOOSE n \in { Len(terms[t].factors) : t \in DOMAIN terms } :
        \A t \in DOMAIN terms : Len(terms[t].factors) <= n

\* the terms a final round emits name the same columns whatever the table holds
PolyTables == { t \in Tables : \A k \in DOMAIN t : \A i \in DOMAIN t[k] : t[k][i] = k - 1 }

PolyInit ==
    /\ OthersIdle
    /\ cm = NoCommit
    /\ cc = NoColumns
    /\ \E t \in PolyTables, e \in Evaluations :
          run = [pc |-> "start", table |-> t, e |-> e,
                 subpolys |-> << >>, produced |-> << >>, ok |-> FALSE]

\* the final round on the table, and the verifier on the evaluations
ProveAndEvaluate ==
    /\ run.pc = "start"
    /\ LET e == run.e
           chs == << e.alpha, e.beta >>
           fin == FilterFinalRoundEvaluate(NewFinalRoundBuilder, run.table, chs).builder
           builder == NewVerificationBuilder(
                          << [tag |-> "lhs_pseudo_inv", val |-> e.lhs_pseudo_inv],
                             [tag |-> "selection", val |-> e.selection],
                             [tag |-> Aliases[1], val |-> e.d[1]],
                             [tag |-> Aliases[2], val |-> e.d[2]],
                             [tag |-> "c_star", val |-> e.c_star],
                             [tag |-> "d_star", val |-> e.d_star] >>,
                          chs, << e.chi_m >>)
           r == FilterVerifierEvaluate(builder, e.accessor, e.chi_n)
       IN  run' = [run EXCEPT !.pc = "evaluated",
                              !.subpolys = fin.subpolys,
                              !.produced = r.b.produced,
                              !.ok = r.ok]
    /\ UNCHANGED << fvars, eq, ex, cm, snd, cc >>

PolyNext == ProveAndEvaluate

SpecPoly == PolyInit /\ [][PolyNext]_vars

\* C26: at each of the six subpolynomial positions (two of the equality gadget, four of the
\* filter) the verifier's evaluation has the type of the prover's subpolynomial and is the
\* prover's weighted sum of products with each column replaced by its evaluation
\* (selection_not by chi_eval - selection_eval, chi_n and chi_m by the chi evaluations,
\* c_fold and d_fold by alpha * fold_vals(beta, evaluations)); no prover term has more than
\* two factors, and two is the degree the verifier declares.
C26_SameSubpolynomials ==
    run.pc = "evaluated" =>
        /\ run.ok
        /\ Len(run.subpolys) = 6
        /\ Len(run.produced) = 6
        /\ \A k \in 1 .. 6 :
              /\ run.produced[k].type = run.subpolys[k].type
              /\ run.produced[k].eval = TermsOfEvaluations(run.subpolys[k].terms, run.e)
              /\ MaxFactors(run.subpolys[k].terms) = 2
              /\ run.produced[k].degree = 2

\* evaluations at which no subpolynomial of the filter evaluates to zero
C26_Witness ==
    /\ run.pc = "evaluated"
    /\ \A k \in 3 .. 6 : run.produced[k].eval # 0
    /\ run.produced[1].eval # run.produced[2].eval

\* the calls that change self in place, and the errors they return
Mutations == {"try_append_rows_with_offset", "try_extend_columns_with_offset"}
Failed == cc.outcome \in {"DuplicateIdentifiers"} \cup MismatchErrors

\* C27: a mutation that fails leaves the instance as it was: after try_append_rows_with_offset
\* returned DuplicateIdentifiers or a mismatch, and after try_extend_columns_with_offset
\* returned DuplicateIdentifiers, self holds the commitments and the metadata it held before.
C27_FailedMutationChangesNothing ==
    cc.pc = "ready" /\ cc.call \in Mutations /\ Failed =>
        /\ cc.self.commitments = cc.before.commitments
        /\ cc.self.column_metadata = cc.before.column_metadata

\* an append of rows for another identifier to an instance that holds a column
C27_Witness ==
    /\ cc.pc = "ready"
    /\ cc.call = "try_append_rows_with_offset"
    /\ cc.outcome \in MismatchErrors
    /\ Len(cc.before.commitments) = 1
    /\ Len(cc.columns) = 1
    /\ cc.self = cc.before

\* C28: building from columns A and then extending by columns B, whose identifiers are not
\* among A's, gives the instance that is built from A followed by B, all at offset 0; the
\* identifiers of B come after those of A.
C28_ExtendIsFromConcatenation ==
    cc.pc = "ready" /\ cc.call = "try_extend_columns_with_offset" /\ cc.outcome = "Ok" =>
        \A A \in ColumnInputs :
            try_from_columns_with_offset(A, 0) = ResultOk(cc.before) =>
                /\ try_from_columns_with_offset(A \o cc.columns, 0) = ResultOk(cc.self)
                /\ Keys(cc.self.column_metadata) =
                      [i \in DOMAIN A |-> A[i].identifier]
                          \o [i \in DOMAIN cc.columns |-> cc.columns[i].identifier]

\* one column extended by another one of a different type
C28_Witness ==
    /\ cc.pc = "ready"
    /\ cc.calls = 2
    /\ cc.call = "try_extend_columns_with_offset"
    /\ cc.outcome = "Ok"
    /\ Keys(cc.before.column_metadata) = << "b" >>
    /\ Keys(cc.self.column_metadata) = << "b", "a" >>
    /\ cc.self.commitments[1] # cc.self.commitments[2]

(***************************************************************************)
(* Reading a HyperKZGCommitment from bytes that need not come from         *)
(* Serialize: two arrays of CoordinateBytes bytes, big-endian.  The field  *)
(* element reader rejects an encoding that is not below the modulus.       *)
(***************************************************************************)
\* CanonicalDeserialize::deserialize_uncompressed of a base field element
try_deserialize_uncompressed(bytes) ==
    LET value == deserialize_uncompressed(bytes)
    IN  IF value < CurveQ THEN ResultOk(value) ELSE ResultErr("InvalidData")

\* Deserialize::deserialize with its error returns
try_deserialize(pair) ==
    IF pair = << ZeroBytes, ZeroBytes >> THEN ResultOk(Deserialize(pair))
    ELSE IF ~IsOk(try_deserialize_uncompressed(reverse(pair[1]))) THEN ResultErr("custom")
    ELSE IF ~IsOk(try_deserialize_uncompressed(reverse(pair[2]))) THEN ResultErr("custom")
    ELSE ResultOk(Deserialize(pair))

\* byte arrays that are zero but for their last two bytes
BigEndianBytes(high, low) ==
    [i \in 1 .. CoordinateBytes |->
        IF i = CoordinateBytes THEN low ELSE IF i = CoordinateBytes - 1 THEN high ELSE 0]
ByteArrays == { BigEndianBytes(high, low) : high \in 0 .. 1, low \in 0 .. CurveQ }
\* the field element an array encodes, if it encodes one
Coordinate(bytes) == deserialize_uncompressed(reverse(bytes))
Canonical(bytes) == Coordinate(bytes) \in Fq

DecodeInit ==
    /\ OthersIdle
    /\ cm = NoCommit
    /\ cc = NoColumns
    /\ \E x_bytes \in ByteArrays, y_bytes \in ByteArrays :
          run = [pc |-> "start", pair |-> << x_bytes, y_bytes >>,
                 result |-> ResultErr("none"), point |-> G1Identity,
                 bytes |-> << ZeroBytes, ZeroBytes >>]

DecodePair ==
    /\ run.pc = "start"
    /\ run' = [run EXCEPT !.pc = "decoded", !.result = try_deserialize(run.pair)]
    /\ UNCHANGED << fvars, eq, ex, cm, snd, cc >>

\* what was read is written again
SerializeDecoded ==
    /\ run.pc = "decoded"
    /\ IsOk(run.result)
    /\ run' = [run EXCEPT !.pc = "serialized", !.point = run.result.value.commitment,
                          !.bytes = Serialize(run.result.value)]
    /\ UNCHANGED << fvars, eq, ex, cm, snd, cc >>

\* a point of the curve is written
SerializePoint ==
    /\ run.pc = "start"
    /\ \E point \in G1Points :
          run' = [run EXCEPT !.pc = "serialized", !.point = point,
                             !.bytes = Serialize(HyperKZGCommitment(point))]
    /\ UNCHANGED << fvars, eq, ex, cm, snd, cc >>

DecodeNext == DecodePair \/ SerializeDecoded \/ SerializePoint

SpecDecode == DecodeInit /\ [][DecodeNext]_vars

\* C29: only the all-zero pair is special: it is read as the identity; every other pair of
\* arrays that encode base field elements x and y is read, successfully, as the point with
\* the coordinates x and y, whether or not (x, y) is on the curve; and writing a commitment
\* that is not the identity never gives the all-zero pair.
C29_OnlyZeroPairIsSpecial ==
    /\ run.pc = "decoded" /\ run.pair = << ZeroBytes, ZeroBytes >> =>
          run.result = ResultOk(HyperKZGCommitment(G1Identity))
    /\ run.pc = "decoded" /\ run.pair # << ZeroBytes, ZeroBytes >>
          /\ Canonical(run.pair[1]) /\ Canonical(run.pair[2]) =>
              /\ IsOk(run.result)
              /\ ~run.result.value.commitment.infinity
              /\ run.result.value.commitment.x = Coordinate(run.pair[1])
              /\ run.result.value.commitment.y = Coordinate(run.pair[2])
    /\ run.pc = "serialized" /\ ~run.point.infinity =>
          run.bytes # << ZeroBytes, ZeroBytes >>

\* a pair that is read as a point that is not on the curve
C29_Witness ==
    /\ run.pc = "decoded"
    /\ IsOk(run.result)
    /\ ~run.result.value.commitment.infinity
    /\ ~OnCurve(run.result.value.commitment.x, run.result.value.commitment.y)
    /\ run.result.value.commitment.x = 0

\* a point that is not on the curve, written again
C29_WitnessWritten ==
    /\ run.pc = "serialized"
    /\ ~run.point.infinity
    /\ ~OnCurve(run.point.x, run.point.y)
    /\ run.bytes = run.pair

(***************************************************************************)
(* compute_commitments_impl with its parallel iterators: one task per      *)
(* column, and within a column one product per row, taken by the worker    *)
(* threads in any order and summed as they come.  A task starts with the   *)
(* assertion of compute_commitment_generic_impl; a failed assertion aborts *)
(* the call.                                                               *)
(***************************************************************************)
\* .sum(): a product is added to what the column has accumulated
Accumulate(partial, product) == G1Add(partial, product)

\* variant: the commitments are collected in the order in which the columns were finished
CollectCommitments_CompletionOrder(partials, finished) ==
    [i \in DOMAIN finished |-> HyperKZGCommitment(partials[finished[i]])]

\* .collect(): the commitments in the order of the columns
CollectCommitments(partials, finished) ==
    [k \in DOMAIN partials |-> HyperKZGCommitment(partials[k])]

ParallelOffsets == 0 .. 2
Finished(k) == \E i \in DOMAIN run.finished : run.finished[i] = k

ParallelInit ==
    /\ OthersIdle
    /\ cm = NoCommit
    /\ cc = NoColumns
    /\ \E columns \in CommitColumnLists, offset \in ParallelOffsets :
          run = [pc |-> "running", columns |-> columns, offset |-> offset,
                 setup |-> PublicSetup,
                 pending |-> { w \in (DOMAIN columns) \X (1 .. MaxRows) :
                                  w[2] <= Len(columns[w[1]]) },
                 partials |-> [k \in DOMAIN columns |-> G1Identity],
                 finished |-> << >>, result |-> << >>]

\* a worker multiplies one row of one column by its generator and adds it to the column's sum
MultiplyRow ==
    /\ run.pc = "running"
    /\ \E w \in run.pending :
          /\ compute_commitment_generic_impl_asserts(run.setup, run.offset, run.columns[w[1]])
          /\ run' = [run EXCEPT
                !.pending = @ \ {w},
                !.partials[w[1]] =
                    Accumulate(@, G1Mul(run.setup[run.offset + w[2]], run.columns[w[1]][w[2]]))]
    /\ UNCHANGED << fvars, eq, ex, cm, snd, cc >>

\* a column all of whose rows have been added is finished
FinishColumn ==
    /\ run.pc = "running"
    /\ \E k \in DOMAIN run.columns :
          /\ ~Finished(k)
          /\ compute_commitment_generic_impl_asserts(run.setup, run.offset, run.columns[k])
          /\ \A w \in run.pending : w[1] # k
          /\ run' = [run EXCEPT !.finished = Append(@, k)]
    /\ UNCHANGED << fvars, eq, ex, cm, snd, cc >>

\* the task of a column that does not fit the setup fails its assertion
AssertionFails ==
    /\ run.pc = "running"
    /\ \E k \in DOMAIN run.columns :
          ~compute_commitment_generic_impl_asserts(run.setup, run.offset, run.columns[k])
    /\ run' = [run EXCEPT !.pc = "aborted"]
    /\ UNCHANGED << fvars, eq, ex, cm, snd, cc >>

CollectAll ==
    /\ run.pc = "running"
    /\ \A k \in DOMAIN run.columns : Finished(k)
    /\ run' = [run EXCEPT !.pc = "returned",
                          !.result = CollectCommitments(run.partials, run.finished)]
    /\ UNCHANGED << fvars, eq, ex, cm, snd, cc >>

ParallelNext == MultiplyRow \/ FinishColumn \/ AssertionFails \/ CollectAll

SpecParallel == ParallelInit /\ [][ParallelNext]_vars

\* C30: whatever the order in which the workers take columns and rows, the call returns one
\* commitment per column, the i-th being that of the i-th column and equal to the sequential
\* sum of scalars[j] * setup[offset + j]; it returns only if every column fits the setup from
\* the offset on, and otherwise it stops by aborting on the assertion.
C30_ParallelEqualsSequential ==
    LET panics == compute_commitments_impl_panics(run.columns, run.offset, run.setup)
    IN  /\ run.pc = "returned" =>
              /\ ~panics
              /\ Len(run.result) = Len(run.columns)
              /\ run.result = compute_commitments_impl(run.columns, run.offset, run.setup)
        /\ run.pc = "aborted" => panics
        /\ run.pc = "running" /\ panics =>
              \E k \in DOMAIN run.columns :
                  /\ ~Finished(k)
                  /\ run.offset + Len(run.columns[k]) > Len(run.setup)

\* two different columns, the second finished before the first
C30_Witness ==
    /\ run.pc = "returned"
    /\ Len(run.columns) = 2
    /\ run.finished = << 2, 1 >>
    /\ Len(run.columns[1]) = MaxRows
    /\ run.result[1] # run.result[2]
    /\ ~run.result[1].commitment.infinity
====
